---- MODULE Spec2Model ----
(***************************************************************************)
(* Verification model of mcpy: the update manager (update.ts), the version *)
(* comparison, the settings store (settings.ts), the enablement resolver   *)
(* the invocation wrapper (tools/index.ts), the event bus (events.ts), the *)
(* process lifecycle (index.ts, server.ts, tools/mcpy) and the TtlCache.   *)
(***************************************************************************)
EXTENDS Integers, Sequences, FiniteSets, TLC

VARIABLES
    fs,        \* the install directory: content at BINARY_PATH, .tmp and .bak
    upc,       \* performUpdate: position of each call
    udata,     \* performUpdate: the bytes the call downloaded (`data`)
    umanifest, \* performUpdate: what the SHA256SUMS fetch gave the call
    uverify,   \* performUpdate: how step 2 ended for the call
    uout,      \* performUpdate: "none" while running, then "ok" or the error raised
    ufailed,   \* performUpdate: the operations of the call that failed so far
    urenamed,  \* performUpdate: the call renamed the install path or the backup path
    ubin0,     \* performUpdate: content of the install path when the call started
    vcur,      \* checkForUpdate: VERSION, the running version
    vtag,      \* checkForUpdate: release.tag_name of the latest release
    vasset,    \* checkForUpdate: the release lists the asset of this platform
    vfetched,  \* checkForUpdate: the release request gave an OK response
    vres,      \* checkForUpdate: "pending", then "none" (null), "update" or "error"
    vlatest,   \* checkForUpdate: UpdateInfo.latest of a reported update
    settings,  \* settings.ts: the cached Settings object, shared with ToolContext
    groupDefault, \* tools/index.ts: enabledByDefault of each group of groupRegistry
    rtool,     \* the ToolDefinition handed to isToolEnabled
    rresult,   \* what isToolEnabled returned for rtool: "pending", "true", "false"
    registered, \* the tools that registerTools gave to server.registerTool
    regDone,   \* registerTools has run
    inv,       \* the invocations of the wrapper, by call number
    ncalls,    \* how many invocations have started
    subscribers,  \* EventBus.subscribers, in insertion order
    recentEvents, \* EventBus.recentEvents
    timeseries,   \* EventBus.timeseries
    stats,        \* EventBus.stats
    sessions,     \* EventBus.sessions: the keys of the map
    heap,         \* EventBus.sessions: the SessionInfo object each key maps to
    streams,      \* the streams createSSEStream returned: state and chunks enqueued
    probes,       \* callbacks given to subscribe: what each call of them saw
    emitted,      \* every event handed to emit so far, in order
    lastEmit,     \* how the latest call of emit ended
    posted,       \* the latest body given to updateSettings by POST /api/settings
    proc,         \* the process: server.ts httpServer, the port, timers, exit
    cache,        \* a TtlCache: store in insertion order, the clock, the latest call
    views         \* the values getStats, getSessions and getTimeseries returned

uvars == <<fs, upc, udata, umanifest, uverify, uout, ufailed, urenamed, ubin0>>

vvars == <<vcur, vtag, vasset, vfetched, vres, vlatest>>

svars == <<settings, groupDefault>>

rvars == <<rtool, rresult>>

tvars == <<registered, regDone, inv, ncalls>>

bvars == <<subscribers, recentEvents, timeseries, stats, sessions, heap, streams, probes,
           emitted, lastEmit>>

xvars == <<posted, proc, cache, views>>

\* What an action of one component leaves alone: the other components.
UFrame == UNCHANGED <<vvars, svars, rvars, tvars, bvars, xvars>>
VFrame == UNCHANGED <<uvars, svars, rvars, tvars, bvars, xvars>>
RFrame == UNCHANGED <<uvars, vvars, tvars, bvars, xvars>>
TFrame == UNCHANGED <<uvars, vvars, rvars, bvars, xvars>>
BFrame == UNCHANGED <<uvars, vvars, svars, rvars, tvars, xvars>>
PFrame == UNCHANGED <<uvars, vvars, rvars, tvars, bvars, proc, cache, views>>
LFrame == UNCHANGED <<uvars, vvars, svars, rvars, tvars, bvars, posted, cache, views>>
CFrame == UNCHANGED <<uvars, vvars, svars, rvars, tvars, bvars, posted, proc, views>>
HFrame == UNCHANGED <<uvars, vvars, svars, rvars, tvars, posted, proc, cache>>

\* The components that a specification does not run.
PIdle == posted = "none"
LIdle == proc = "none"
CIdle == cache = "none"
HIdle == views = "none"
XIdle == PIdle /\ LIdle /\ CIdle /\ HIdle

vars == <<fs, upc, udata, umanifest, uverify, uout, ufailed, urenamed, ubin0,
          vcur, vtag, vasset, vfetched, vres, vlatest,
          settings, groupDefault, rtool, rresult, registered, regDone, inv, ncalls,
          subscribers, recentEvents, timeseries, stats, sessions, streams, probes,
          emitted, lastEmit, heap, posted, proc, cache, views>>

-----------------------------------------------------------------------------
(* Update manager: update.ts                                               *)

Absent == "absent"

\* The calls of performUpdate.
UCalls == {1}

\* Release assets that a download can return, and what a file can hold.
Assets == {"relA", "relB"}
Contents == {Absent, "old", "stale"} \cup Assets

\* Bun.CryptoHasher("sha256").digest("hex") of the downloaded bytes.
Sha256(d) == IF d = "relA" THEN "hashA" ELSE IF d = "relB" THEN "hashB" ELSE "hashOther"

\* What the SHA256SUMS request can give: the fetch throws, a non-OK response,
\* a manifest with no line for the asset, or a line carrying a hash.
NoManifest == {"fetch_throws", "not_ok", "no_line"}
Manifests == NoManifest \cup {"hashA", "hashB"}

\* renameSync(from, to) on the directory f.
RenameFile(f, from, to) == [f EXCEPT ![to] = f[from], ![from] = Absent]

\* unlinkSync(path) on the directory f.
UnlinkFile(f, path) == [f EXCEPT ![path] = Absent]

\* The call ends: it returns ("ok") or raises the error `out`.
UEnd(c, out) ==
    /\ upc' = [upc EXCEPT ![c] = "done"]
    /\ uout' = [uout EXCEPT ![c] = out]

UFail(c, what) == ufailed' = [ufailed EXCEPT ![c] = @ \cup {what}]

UInit ==
    /\ fs \in [bin : {Absent, "old"}, tmp : {Absent, "stale"}, bak : {Absent, "stale"}]
    /\ upc = [c \in UCalls |-> "download"]
    /\ udata = [c \in UCalls |-> Absent]
    /\ umanifest = [c \in UCalls |-> "pending"]
    /\ uverify = [c \in UCalls |-> "pending"]
    /\ uout = [c \in UCalls |-> "none"]
    /\ ufailed = [c \in UCalls |-> {}]
    /\ urenamed = [c \in UCalls |-> FALSE]
    /\ ubin0 = [c \in UCalls |-> fs.bin]

\* 1. fetch(info.downloadUrl): the fetch throws, or the response is not OK,
\*    or reading the body throws: all raised.
DownloadFails(c) ==
    /\ upc[c] = "download"
    /\ UFail(c, "download")
    /\ UEnd(c, "Download failed")
    /\ UNCHANGED <<fs, udata, umanifest, uverify, urenamed, ubin0>>
    /\ UFrame

DownloadOk(c) ==
    /\ upc[c] = "download"
    /\ \E d \in Assets : udata' = [udata EXCEPT ![c] = d]
    /\ upc' = [upc EXCEPT ![c] = "write"]
    /\ UNCHANGED <<fs, umanifest, uverify, uout, ufailed, urenamed, ubin0>>
    /\ UFrame

\* await Bun.write(tmpPath, data)
WriteTmpOk(c) ==
    /\ upc[c] = "write"
    /\ fs' = [fs EXCEPT !.tmp = udata[c]]
    /\ upc' = [upc EXCEPT ![c] = "sums"]
    /\ UNCHANGED <<udata, umanifest, uverify, uout, ufailed, urenamed, ubin0>>
    /\ UFrame

WriteTmpFails(c) ==
    /\ upc[c] = "write"
    /\ UFail(c, "write")
    /\ UEnd(c, "write failed")
    /\ UNCHANGED <<fs, udata, umanifest, uverify, urenamed, ubin0>>
    /\ UFrame

\* The outcome of comparing actualHash with expectedHash.
HashVerdict(actual, expected) == IF actual # expected THEN "mismatch" ELSE "matched"

\* A verification that treats an unreachable manifest as a failed check.
VerdictOfStrict(m, d) ==
    IF m = "no_line" THEN "skipped"
    ELSE IF m \in NoManifest THEN "mismatch" ELSE HashVerdict(Sha256(d), m)

\* 2. fetch(sumsUrl) inside try: a throw or a non-OK response or a manifest
\*    without a line for the asset skips the verification; with a line the
\*    hash of `data` is compared with the line's first field.
VerdictOf(m, d) == IF m \in NoManifest THEN "skipped" ELSE HashVerdict(Sha256(d), m)

FetchSums(c) ==
    /\ upc[c] = "sums"
    /\ \E m \in Manifests :
          /\ umanifest' = [umanifest EXCEPT ![c] = m]
          /\ uverify' = [uverify EXCEPT ![c] = VerdictOf(m, udata[c])]
          /\ upc' = [upc EXCEPT ![c] =
                       IF VerdictOf(m, udata[c]) = "mismatch" THEN "unlink_mismatch" ELSE "chmod"]
          /\ ufailed' = [ufailed EXCEPT ![c] =
                       IF m \in {"fetch_throws", "not_ok"} THEN @ \cup {"manifest"} ELSE @]
    /\ UNCHANGED <<fs, udata, uout, urenamed, ubin0>>
    /\ UFrame

\* if (actualHash !== expectedHash) { unlinkSync(tmpPath); throw ... }
MismatchUnlinkOk(c) ==
    /\ upc[c] = "unlink_mismatch"
    /\ fs.tmp # Absent
    /\ fs' = UnlinkFile(fs, "tmp")
    /\ UEnd(c, "Checksum mismatch")
    /\ UNCHANGED <<udata, umanifest, uverify, ufailed, urenamed, ubin0>>
    /\ UFrame

\* unlinkSync(tmpPath) throws inside the try: the catch block re-throws only
\* an error whose message starts with "Checksum mismatch", so this one is
\* dropped and the call goes on to step 3.
MismatchUnlinkThrows(c) ==
    /\ upc[c] = "unlink_mismatch"
    /\ UFail(c, "unlink_tmp")
    /\ upc' = [upc EXCEPT ![c] = "chmod"]
    /\ UNCHANGED <<fs, udata, umanifest, uverify, uout, urenamed, ubin0>>
    /\ UFrame

\* 3. chmodSync(tmpPath, 0o755)
ChmodOk(c) ==
    /\ upc[c] = "chmod"
    /\ fs.tmp # Absent
    /\ upc' = [upc EXCEPT ![c] = "backup"]
    /\ UNCHANGED <<fs, udata, umanifest, uverify, uout, ufailed, urenamed, ubin0>>
    /\ UFrame

ChmodFails(c) ==
    /\ upc[c] = "chmod"
    /\ UFail(c, "chmod")
    /\ UEnd(c, "chmod failed")
    /\ UNCHANGED <<fs, udata, umanifest, uverify, urenamed, ubin0>>
    /\ UFrame

\* if (existsSync(BINARY_PATH)) renameSync(BINARY_PATH, backupPath)
BackupOk(c) ==
    /\ upc[c] = "backup"
    /\ fs.bin # Absent
    /\ fs' = RenameFile(fs, "bin", "bak")
    /\ urenamed' = [urenamed EXCEPT ![c] = TRUE]
    /\ upc' = [upc EXCEPT ![c] = "install"]
    /\ UNCHANGED <<udata, umanifest, uverify, uout, ufailed, ubin0>>
    /\ UFrame

BackupSkipped(c) ==
    /\ upc[c] = "backup"
    /\ fs.bin = Absent
    /\ upc' = [upc EXCEPT ![c] = "install"]
    /\ UNCHANGED <<fs, udata, umanifest, uverify, uout, ufailed, urenamed, ubin0>>
    /\ UFrame

\* catch { unlinkSync(tmpPath); throw new Error("Failed to backup current binary") }
BackupFails(c) ==
    /\ upc[c] = "backup"
    /\ fs.bin # Absent
    /\ UFail(c, "backup")
    /\ upc' = [upc EXCEPT ![c] = "unlink_after_backup"]
    /\ UNCHANGED <<fs, udata, umanifest, uverify, uout, urenamed, ubin0>>
    /\ UFrame

BackupFailsUnlinkOk(c) ==
    /\ upc[c] = "unlink_after_backup"
    /\ fs.tmp # Absent
    /\ fs' = UnlinkFile(fs, "tmp")
    /\ UEnd(c, "Failed to backup current binary")
    /\ UNCHANGED <<udata, umanifest, uverify, ufailed, urenamed, ubin0>>
    /\ UFrame

BackupFailsUnlinkThrows(c) ==
    /\ upc[c] = "unlink_after_backup"
    /\ UFail(c, "unlink_tmp")
    /\ UEnd(c, "unlink failed")
    /\ UNCHANGED <<fs, udata, umanifest, uverify, urenamed, ubin0>>
    /\ UFrame

\* try { renameSync(tmpPath, BINARY_PATH) }
InstallOk(c) ==
    /\ upc[c] = "install"
    /\ fs.tmp # Absent
    /\ fs' = RenameFile(fs, "tmp", "bin")
    /\ urenamed' = [urenamed EXCEPT ![c] = TRUE]
    /\ upc' = [upc EXCEPT ![c] = "remove_backup"]
    /\ UNCHANGED <<udata, umanifest, uverify, uout, ufailed, ubin0>>
    /\ UFrame

InstallFails(c) ==
    /\ upc[c] = "install"
    /\ UFail(c, "install")
    /\ upc' = [upc EXCEPT ![c] = "restore"]
    /\ UNCHANGED <<fs, udata, umanifest, uverify, uout, urenamed, ubin0>>
    /\ UFrame

\* renameSync(backupPath, BINARY_PATH)
RestoreBackup(f) == RenameFile(f, "bak", "bin")

\* catch: if (existsSync(backupPath)) try { renameSync(backupPath, BINARY_PATH) } catch {}
RestoreOk(c) ==
    /\ upc[c] = "restore"
    /\ fs.bak # Absent
    /\ fs' = RestoreBackup(fs)
    /\ urenamed' = [urenamed EXCEPT ![c] = TRUE]
    /\ upc' = [upc EXCEPT ![c] = "unlink_after_install"]
    /\ UNCHANGED <<udata, umanifest, uverify, uout, ufailed, ubin0>>
    /\ UFrame

RestoreFails(c) ==
    /\ upc[c] = "restore"
    /\ fs.bak # Absent
    /\ UFail(c, "restore")
    /\ upc' = [upc EXCEPT ![c] = "unlink_after_install"]
    /\ UNCHANGED <<fs, udata, umanifest, uverify, uout, urenamed, ubin0>>
    /\ UFrame

RestoreSkipped(c) ==
    /\ upc[c] = "restore"
    /\ fs.bak = Absent
    /\ upc' = [upc EXCEPT ![c] = "unlink_after_install"]
    /\ UNCHANGED <<fs, udata, umanifest, uverify, uout, ufailed, urenamed, ubin0>>
    /\ UFrame

\* unlinkSync(tmpPath); throw new Error("Failed to install new binary: ...")
InstallFailsUnlinkOk(c) ==
    /\ upc[c] = "unlink_after_install"
    /\ fs.tmp # Absent
    /\ fs' = UnlinkFile(fs, "tmp")
    /\ UEnd(c, "Failed to install new binary")
    /\ UNCHANGED <<udata, umanifest, uverify, ufailed, urenamed, ubin0>>
    /\ UFrame

InstallFailsUnlinkThrows(c) ==
    /\ upc[c] = "unlink_after_install"
    /\ UFail(c, "unlink_tmp")
    /\ UEnd(c, "unlink failed")
    /\ UNCHANGED <<fs, udata, umanifest, uverify, urenamed, ubin0>>
    /\ UFrame

\* 4. if (existsSync(backupPath)) try { unlinkSync(backupPath) } catch {}
RemoveBackupOk(c) ==
    /\ upc[c] = "remove_backup"
    /\ fs' = UnlinkFile(fs, "bak")
    /\ UEnd(c, "ok")
    /\ UNCHANGED <<udata, umanifest, uverify, ufailed, urenamed, ubin0>>
    /\ UFrame

RemoveBackupThrows(c) ==
    /\ upc[c] = "remove_backup"
    /\ fs.bak # Absent
    /\ UFail(c, "unlink_bak")
    /\ UEnd(c, "ok")
    /\ UNCHANGED <<fs, udata, umanifest, uverify, urenamed, ubin0>>
    /\ UFrame

PerformUpdate(c) ==
    \/ DownloadFails(c) \/ DownloadOk(c)
    \/ WriteTmpOk(c) \/ WriteTmpFails(c)
    \/ FetchSums(c)
    \/ MismatchUnlinkOk(c) \/ MismatchUnlinkThrows(c)
    \/ ChmodOk(c) \/ ChmodFails(c)
    \/ BackupOk(c) \/ BackupSkipped(c) \/ BackupFails(c)
    \/ BackupFailsUnlinkOk(c) \/ BackupFailsUnlinkThrows(c)
    \/ InstallOk(c) \/ InstallFails(c)
    \/ RestoreOk(c) \/ RestoreFails(c) \/ RestoreSkipped(c)
    \/ InstallFailsUnlinkOk(c) \/ InstallFailsUnlinkThrows(c)
    \/ RemoveBackupOk(c) \/ RemoveBackupThrows(c)

UNext == \E c \in UCalls : PerformUpdate(c)

-----------------------------------------------------------------------------
(* Version check: isNewer and checkForUpdate of update.ts.  Strings are    *)
(* sequences of one-character strings.                                     *)

\* The longest version string of the model has MaxVersionParts components.
MaxVersionParts == 3

DigitChars == {"0", "1", "2", "3", "4", "5", "6", "7", "8", "9"}

DigitVal(ch) ==
    CASE ch = "0" -> 0 [] ch = "1" -> 1 [] ch = "2" -> 2 [] ch = "3" -> 3
      [] ch = "4" -> 4 [] ch = "5" -> 5 [] ch = "6" -> 6 [] ch = "7" -> 7
      [] ch = "8" -> 8 [] ch = "9" -> 9

\* Number(x) gives NaN for a string that is no number; the strings of the
\* model carry no sign, so a negative value stands for NaN.
NaN == -1

\* s.replace(/^v/, "")
StripV(s) == IF Len(s) > 0 /\ Head(s) = "v" THEN Tail(s) ELSE s

\* s.split("."): the components between the dots, "" included.
RECURSIVE SplitDots(_)
SplitDots(s) ==
    IF \A i \in 1..Len(s) : s[i] # "."
    THEN <<s>>
    ELSE LET k == CHOOSE i \in 1..Len(s) : s[i] = "." /\ \A j \in 1..(i - 1) : s[j] # "."
         IN <<SubSeq(s, 1, k - 1)>> \o SplitDots(SubSeq(s, k + 1, Len(s)))

RECURSIVE DecimalValue(_)
DecimalValue(s) ==
    IF Len(s) = 0 THEN 0
    ELSE 10 * DecimalValue(SubSeq(s, 1, Len(s) - 1)) + DigitVal(s[Len(s)])

\* Number(component): 0 for "", the value of a run of digits, NaN otherwise.
ToNumber(s) ==
    IF Len(s) = 0 THEN 0
    ELSE IF \A i \in 1..Len(s) : s[i] \in DigitChars THEN DecimalValue(s)
    ELSE NaN

\* s.replace(/^v/, "").split(".").map(Number)
ParseVersion(s) == LET parts == SplitDots(StripV(s)) IN [i \in 1..Len(parts) |-> ToNumber(parts[i])]

\* (p[i] || 0), i counted from 1: undefined, NaN and 0 all give 0.
PartOrZero(p, i) == IF i > Len(p) \/ p[i] = NaN THEN 0 ELSE p[i]

\* A comparison that looks at the major component only.
IsNewerMajorOnly(a, b) == PartOrZero(ParseVersion(b), 1) > PartOrZero(ParseVersion(a), 1)

\* isNewer(a, b): the loop over i = 0, 1, 2 returns at the first component
\* that differs.
IsNewer(a, b) ==
    LET pa == ParseVersion(a)
        pb == ParseVersion(b)
        differ == {i \in 1..3 : PartOrZero(pb, i) # PartOrZero(pa, i)}
    IN  IF differ = {} THEN FALSE
        ELSE LET i == CHOOSE k \in differ : \A j \in differ : k <= j
             IN PartOrZero(pb, i) > PartOrZero(pa, i)

\* The components a version string of the model is made of.
VersionParts ==
    {<<>>, <<"0">>, <<"1">>, <<"2">>, <<"3">>, <<"1", "0">>, <<"1", "a">>}

RECURSIVE JoinDots(_)
JoinDots(parts) ==
    IF Len(parts) = 1 THEN parts[1]
    ELSE parts[1] \o <<".">> \o JoinDots(Tail(parts))

\* The tags a release can carry: up to two leading "v", then components.
ReleaseTags ==
    {pre \o JoinDots(parts) :
        pre \in {<<>>, <<"v">>, <<"v", "v">>},
        parts \in UNION {[1..n -> VersionParts] : n \in 1..MaxVersionParts}}

\* The values of VERSION the model runs with: 1.2.3, 1.2 and 0.10.0.
RunningVersions ==
    {<<"1", ".", "2", ".", "3">>, <<"1", ".", "2">>, <<"0", ".", "1", "0", ".", "0">>}

VInit ==
    /\ vcur \in RunningVersions
    /\ vtag \in ReleaseTags
    /\ vasset \in BOOLEAN
    /\ vfetched = FALSE
    /\ vres = "pending"
    /\ vlatest = <<>>

\* fetch(".../releases/latest") throws, or !res.ok
CheckFetchFails ==
    /\ vres = "pending"
    /\ vres' = "error"
    /\ UNCHANGED <<vcur, vtag, vasset, vfetched, vlatest>>
    /\ VFrame

\* checkForUpdate() from `const latest = release.tag_name.replace(/^v/, "")`
CheckForUpdate ==
    /\ vres = "pending"
    /\ vfetched' = TRUE
    /\ LET latest == StripV(vtag) IN
        IF ~IsNewer(vcur, latest)
        THEN vres' = "none" /\ UNCHANGED vlatest
        ELSE IF ~vasset
        THEN vres' = "error" /\ UNCHANGED vlatest
        ELSE vres' = "update" /\ vlatest' = latest
    /\ UNCHANGED <<vcur, vtag, vasset>>
    /\ VFrame

VNext == CheckFetchFails \/ CheckForUpdate

VIdle ==
    /\ vcur = <<>>
    /\ vtag = <<>>
    /\ vasset = FALSE
    /\ vfetched = FALSE
    /\ vres = "idle"
    /\ vlatest = <<>>

UIdle ==
    /\ fs = [bin |-> Absent, tmp |-> Absent, bak |-> Absent]
    /\ upc = [c \in UCalls |-> "done"]
    /\ udata = [c \in UCalls |-> Absent]
    /\ umanifest = [c \in UCalls |-> "pending"]
    /\ uverify = [c \in UCalls |-> "pending"]
    /\ uout = [c \in UCalls |-> "none"]
    /\ ufailed = [c \in UCalls |-> {}]
    /\ urenamed = [c \in UCalls |-> FALSE]
    /\ ubin0 = [c \in UCalls |-> Absent]

-----------------------------------------------------------------------------
(* Settings store: settings.ts                                             *)

\* JavaScript's undefined, for a key that is not there.
Undefined == "undefined"

ApiKeyNames == {"github"}
DbNames == {"postgres"}
DbFields == {"password"}
ToolNames == {"web_fetch_text", "github_search", "postgres_query"}

\* A value of an object that is itself an object (always truthy).
ObjectValue == "[object]"

\* What a string setting can hold; "" can come from settings.json only.
StoredStrings == {Undefined, "", "secret"}

\* settings.tools[name]: undefined, { enabled: true } or { enabled: false }.
Overrides == {Undefined, "on", "off"}

\* What a write that is not of the declared type can leave at
\* settings.tools[name]: null; a value whose .enabled is undefined ({}, a
\* string, a number); an object whose .enabled is a non-empty string.
NoFlag == "noflag"
TruthyFlag == "truthyflag"
StoredOverrides == Overrides \cup {"null", NoFlag, TruthyFlag}

\* database[name]: undefined, or an object with its fields.
DbConfigs == [exists : BOOLEAN, fields : [DbFields -> {Undefined, "secret"}]]

NoDb == [exists |-> FALSE, fields |-> [f \in DbFields |-> Undefined]]

\* The Settings objects loadSettings can return.
AllSettings ==
    [apiKeys : [ApiKeyNames -> StoredStrings],
     database : [DbNames -> {d \in DbConfigs : d.exists \/ d = NoDb}],
     tools : [ToolNames -> Overrides]]

\* getSettingValue(settings, path), path already split at the dots: walks the
\* keys and returns undefined as soon as the current value is no object.
GetSettingValue(s, path) ==
    IF Len(path) = 0 THEN ObjectValue
    ELSE IF path[1] = "apiKeys" THEN
        IF Len(path) = 1 THEN ObjectValue
        ELSE IF Len(path) = 2 /\ path[2] \in ApiKeyNames THEN s.apiKeys[path[2]]
        ELSE Undefined
    ELSE IF path[1] = "database" THEN
        IF Len(path) = 1 THEN ObjectValue
        ELSE IF path[2] \notin DbNames THEN Undefined
        ELSE IF ~s.database[path[2]].exists THEN Undefined
        ELSE IF Len(path) = 2 THEN ObjectValue
        ELSE IF Len(path) = 3 /\ path[3] \in DbFields THEN s.database[path[2]].fields[path[3]]
        ELSE Undefined
    ELSE IF path[1] = "tools" THEN
        IF Len(path) = 1 THEN ObjectValue
        ELSE IF path[2] \notin ToolNames \/ s.tools[path[2]] = Undefined THEN Undefined
        ELSE IF Len(path) = 2 THEN ObjectValue
        ELSE Undefined
    ELSE Undefined

\* !!value
Truthy(v) == v \notin {Undefined, ""}

\* A key of a partial that is not sent.
Omit == "omit"
Null == "null"
Masked == "***cret"

\* The strings of the model, as sequences of characters.
Chars(v) ==
    CASE v = "" -> <<>>
      [] v = "key" -> <<"k", "e", "y">>
      [] v = "abcd" -> <<"a", "b", "c", "d">>
      [] v = "secret" -> <<"s", "e", "c", "r", "e", "t">>
      [] v = "***" -> <<"*", "*", "*">>
      [] v = "***cret" -> <<"*", "*", "*", "c", "r", "e", "t">>

Strings == {"", "key", "abcd", "secret", "***", "***cret"}

\* The string of the model with the characters cs.
StringOf(cs) == CHOOSE v \in Strings : Chars(v) = cs

Stars == <<"*", "*", "*">>

\* A test that takes a value for redacted only if something follows the stars.
StartsWithStarsAndTail(v) == Len(Chars(v)) > 3 /\ SubSeq(Chars(v), 1, 3) = Stars

\* v.startsWith("***")
StartsWithStars(v) == Len(Chars(v)) >= 3 /\ SubSeq(Chars(v), 1, 3) = Stars

\* updateSettings, one entry of partial.apiKeys: "" or null deletes the key,
\* a redacted value is skipped, any other string is stored.
MergeString(old, v) ==
    IF v = Omit THEN old
    ELSE IF v = "" \/ v = Null THEN Undefined
    ELSE IF ~StartsWithStars(v) THEN v
    ELSE old

\* updateSettings, one entry of partial.database: null deletes the whole
\* object; otherwise the fields are merged into the existing object, or into
\* a new one, which is then stored.
MergeDb(old, d) ==
    IF d.kind = Omit THEN old
    ELSE IF d.kind = Null THEN NoDb
    ELSE [exists |-> TRUE,
          fields |-> [f \in DbFields |-> MergeString(old.fields[f], d.fields[f])]]

\* updateSettings, partial.tools: Object.assign(current.tools, partial.tools)
MergeTools(old, pt) == [t \in ToolNames |-> IF pt[t] = Omit THEN old[t] ELSE pt[t]]

\* updateSettings(partial)
UpdateSettings(s, partial) ==
    [apiKeys |-> [k \in ApiKeyNames |-> MergeString(s.apiKeys[k], partial.apiKeys[k])],
     database |-> [d \in DbNames |-> MergeDb(s.database[d], partial.database[d])],
     tools |-> MergeTools(s.tools, partial.tools)]

\* An entry of partial.database: not sent, null, or an object of fields.
OmitDb == [kind |-> Omit, fields |-> [f \in DbFields |-> Omit]]
NullDb == [kind |-> Null, fields |-> [f \in DbFields |-> Omit]]
DbPartials ==
    {NullDb} \cup [kind : {"object"}, fields : [DbFields -> {Omit, "", "secret", Masked}]]

NoPartial ==
    [apiKeys |-> [k \in ApiKeyNames |-> Omit],
     database |-> [d \in DbNames |-> OmitDb],
     tools |-> [t \in ToolNames |-> Omit]]

\* The bodies of POST /api/settings the model sends: one section each.
Partials ==
    {[NoPartial EXCEPT !.apiKeys = a] : a \in [ApiKeyNames -> {"", Null, "secret", Masked}]}
    \cup {[NoPartial EXCEPT !.database = d] : d \in [DbNames -> DbPartials]}
    \cup {[NoPartial EXCEPT !.tools = [NoPartial.tools EXCEPT ![t] = o]] :
            t \in ToolNames, o \in {"on", "off"}}

\* val.slice(-n)
SliceLast(cs, n) == IF Len(cs) <= n THEN cs ELSE SubSeq(cs, Len(cs) - n + 1, Len(cs))

\* redactSettings, one API key: val.length > 4 ? "***" + val.slice(-4) : "***"
RedactString(v) ==
    IF ~Truthy(v) THEN v
    ELSE IF Len(Chars(v)) > 4 THEN StringOf(Stars \o SliceLast(Chars(v), 4))
    ELSE StringOf(Stars)

\* redactSettings, one database object: a truthy password becomes "***"
RedactDb(d) ==
    IF d.exists /\ Truthy(d.fields["password"])
    THEN [d EXCEPT !.fields["password"] = StringOf(Stars)]
    ELSE d

\* redactSettings(settings): works on a structuredClone, settings is not
\* changed.
RedactSettings(s) ==
    [apiKeys |-> [k \in ApiKeyNames |-> RedactString(s.apiKeys[k])],
     database |-> [d \in DbNames |-> RedactDb(s.database[d])],
     tools |-> s.tools]

\* The body a client sends back after GET /api/settings: the JSON of the
\* object it received, in which a key whose value is undefined does not occur.
JsonBody(r) ==
    [apiKeys |-> [k \in ApiKeyNames |->
                    IF r.apiKeys[k] = Undefined THEN Omit ELSE r.apiKeys[k]],
     database |-> [d \in DbNames |->
                    IF ~r.database[d].exists THEN OmitDb
                    ELSE [kind |-> "object",
                          fields |-> [f \in DbFields |->
                                        IF r.database[d].fields[f] = Undefined THEN Omit
                                        ELSE r.database[d].fields[f]]]],
     tools |-> [t \in ToolNames |-> IF r.tools[t] = Undefined THEN Omit ELSE r.tools[t]]]

-----------------------------------------------------------------------------
(* Enablement resolver: hasRequiredSettings and isToolEnabled of           *)
(* tools/index.ts                                                          *)

GroupIds == {"fetch", "github", "postgres"}
NoGroup == "none"

\* A group id that is not a key of groupRegistry.
UnlistedGroup == "unlisted"

PathApiKey == <<"apiKeys", "github">>
PathDb == <<"database", "postgres">>

\* The registry: the tools of the model with their group and requiredSettings
\* (a tool without requiredSettings has the empty list).
Catalog ==
    [web_fetch_text |-> [name |-> "web_fetch_text", group |-> "fetch", requiredSettings |-> <<>>],
     github_search |-> [name |-> "github_search", group |-> "github",
                        requiredSettings |-> <<PathApiKey>>],
     postgres_query |-> [name |-> "postgres_query", group |-> "postgres",
                         requiredSettings |-> <<PathDb>>]]

\* ALL_GROUPS: every group of the repository has enabledByDefault: true.
CatalogGroupDefault == [g \in GroupIds |-> TRUE]

\* The ToolDefinitions isToolEnabled is applied to.
ToolDefinitions ==
    [name : ToolNames, group : GroupIds \cup {NoGroup, UnlistedGroup},
     requiredSettings : {<<>>, <<PathApiKey>>, <<PathDb>>, <<PathApiKey, PathDb>>,
                         <<<<"database", "postgres", "password">>>>}]

\* hasRequiredSettings(tool, settings)
HasRequiredSettings(tool, s) ==
    \A i \in 1..Len(tool.requiredSettings) : Truthy(GetSettingValue(s, tool.requiredSettings[i]))

\* JavaScript's `a && b` for the flag of an override and the boolean b: a when
\* a is falsy, b otherwise.
FlagAnd(explicit, b) ==
    IF explicit = "off" THEN "false"
    ELSE IF explicit = NoFlag THEN Undefined
    ELSE IF b THEN "true" ELSE "false"

\* groupRegistry.get(tool.group), for a tool that names a group
GroupListed(tool, groups) == tool.group # NoGroup /\ tool.group \in DOMAIN groups

\* A resolver that lets an override of true win over missing configuration.
IsToolEnabledOverrideOnly(tool, s, groups) ==
    IF s.tools[tool.name] # Undefined
    THEN IF s.tools[tool.name] = Null THEN "TypeError"
         ELSE FlagAnd(s.tools[tool.name], TRUE)
    ELSE IF Len(tool.requiredSettings) > 0
    THEN IF HasRequiredSettings(tool, s) THEN "true" ELSE "false"
    ELSE IF GroupListed(tool, groups)
    THEN IF groups[tool.group] THEN "true" ELSE "false"
    ELSE "true"

\* A resolver that asks the group before the required settings.
IsToolEnabledGroupFirst(tool, s, groups) ==
    IF s.tools[tool.name] # Undefined
    THEN IF s.tools[tool.name] = Null THEN "TypeError"
         ELSE FlagAnd(s.tools[tool.name], HasRequiredSettings(tool, s))
    ELSE IF GroupListed(tool, groups)
    THEN IF groups[tool.group] THEN "true" ELSE "false"
    ELSE IF Len(tool.requiredSettings) > 0
    THEN IF HasRequiredSettings(tool, s) THEN "true" ELSE "false"
    ELSE "true"

\* isToolEnabled(tool, settings), groups being groupRegistry's enabledByDefault:
\* the value it returns ("true", "false", undefined), or "TypeError" when
\* reading .enabled of null throws.
IsToolEnabled(tool, s, groups) ==
    IF s.tools[tool.name] # Undefined
    THEN IF s.tools[tool.name] = Null THEN "TypeError"
         ELSE FlagAnd(s.tools[tool.name], HasRequiredSettings(tool, s))
    ELSE IF Len(tool.requiredSettings) > 0
    THEN IF HasRequiredSettings(tool, s) THEN "true" ELSE "false"
    ELSE IF GroupListed(tool, groups)
    THEN IF groups[tool.group] THEN "true" ELSE "false"
    ELSE "true"

SInit ==
    /\ settings \in AllSettings
    /\ groupDefault = CatalogGroupDefault

RInit ==
    /\ settings \in AllSettings
    /\ groupDefault \in [GroupIds -> BOOLEAN]
    /\ rtool \in ToolDefinitions
    /\ rresult = "pending"

\* One application of isToolEnabled(rtool, settings).
ResolveEnabled ==
    /\ rresult = "pending"
    /\ rresult' = IsToolEnabled(rtool, settings, groupDefault)
    /\ UNCHANGED <<rtool, settings, groupDefault>>
    /\ RFrame

RNext == ResolveEnabled

-----------------------------------------------------------------------------
(* The resolver on what the management requests store: api.ts writes the   *)
(* bodies it receives without checking their types                         *)

\* body.enabled of POST /api/tools: true, false, not sent, a string.
RawFlags == {"true", "false", Undefined, "yes"}

\* { enabled: body.enabled }
OverrideOfFlag(enabled) ==
    IF enabled = "true" THEN "on"
    ELSE IF enabled = "false" THEN "off"
    ELSE IF enabled = Undefined THEN NoFlag
    ELSE TruthyFlag

\* A value of partial.tools[name] of POST /api/settings: Object.assign copies
\* it as it is.
RawOverrides == StoredOverrides \ {Undefined}

\* DEFAULT_SETTINGS
DefaultSettings ==
    [apiKeys |-> [k \in ApiKeyNames |-> Undefined],
     database |-> [d \in DbNames |-> NoDb],
     tools |-> [t \in ToolNames |-> Undefined]]

WInit ==
    /\ settings = DefaultSettings
    /\ groupDefault = CatalogGroupDefault
    /\ rtool \in {Catalog[t] : t \in ToolNames}
    /\ rresult = "pending"

\* POST /api/tools { name, enabled } with any body.enabled
StoreToolFlag(t, enabled) ==
    /\ rresult = "pending"
    /\ settings' = [settings EXCEPT !.tools[t] = OverrideOfFlag(enabled)]
    /\ settings' # settings
    /\ UNCHANGED <<groupDefault, rtool, rresult>>
    /\ RFrame

\* POST /api/settings { tools: { [t]: v } } with any v
StoreToolsEntry(t, v) ==
    /\ rresult = "pending"
    /\ settings' = [settings EXCEPT !.tools[t] = v]
    /\ settings' # settings
    /\ UNCHANGED <<groupDefault, rtool, rresult>>
    /\ RFrame

\* POST /api/settings with a partial of the declared type
StoreSettings(partial) ==
    /\ rresult = "pending"
    /\ settings' = UpdateSettings(settings, partial)
    /\ settings' # settings
    /\ UNCHANGED <<groupDefault, rtool, rresult>>
    /\ RFrame

\* isToolEnabled(rtool, settings), as registerTools and getToolInfoList call it
ResolveStored ==
    /\ rresult = "pending"
    /\ rresult' = IsToolEnabled(rtool, settings, groupDefault)
    /\ UNCHANGED <<rtool, settings, groupDefault>>
    /\ RFrame

WNext ==
    \/ \E t \in ToolNames, enabled \in RawFlags : StoreToolFlag(t, enabled)
    \/ \E t \in ToolNames, v \in RawOverrides : StoreToolsEntry(t, v)
    \/ \E partial \in Partials : StoreSettings(partial)
    \/ ResolveStored

-----------------------------------------------------------------------------
(* Invocation wrapper: registerTools of tools/index.ts, with the two       *)
(* management requests that change the settings (api.ts)                   *)

\* The model runs at most MaxCalls tool calls.
MaxCalls == 2

CallIds == 1..MaxCalls

\* An invocation: the tool called, where the wrapper is ("unused", "running"
\* while the handler is awaited, "returned"), how the handler's promise
\* settled, the result returned to the protocol layer, and what the wrapper
\* did for this call, in order (events emitted, handler called, return).
NoInvocation ==
    [tool |-> "none", state |-> "unused", handler |-> "none", result |-> "none", log |-> <<>>]

\* eventBus.emit({ type, ... }) by the wrapper of one call
EmitEvent(log, type) == Append(log, type)

\* The entries of an invocation's log that are events of the bus.
EventKinds == {"tool_call", "tool_result", "tool_error"}

\* A wrapper without the call-time check of the required settings.
FirstMissingNever(tool, s) == 0

\* The loop over tool.requiredSettings of the wrapper: the index of the first
\* path whose value is falsy, 0 when there is none.
FirstMissing(tool, s) ==
    LET bad == {i \in 1..Len(tool.requiredSettings) :
                  ~Truthy(GetSettingValue(s, tool.requiredSettings[i]))}
    IN  IF bad = {} THEN 0 ELSE CHOOSE i \in bad : \A j \in bad : i <= j

TInit ==
    /\ registered = {}
    /\ regDone = FALSE
    /\ inv = [id \in CallIds |-> NoInvocation]
    /\ ncalls = 0

\* registerTools(server, settings): the loop over the registry
RegisterTools ==
    /\ ~regDone
    /\ registered' = {t \in ToolNames : IsToolEnabled(Catalog[t], settings, groupDefault) = "true"}
    /\ regDone' = TRUE
    /\ UNCHANGED <<inv, ncalls, settings, groupDefault>>
    /\ TFrame

\* A server that looks the tool up in the configuration at each call.
CallableWhenEnabled(t, reg, s) == IsToolEnabled(Catalog[t], s, groupDefault) = "true"

\* The tools a client can call: server.registerTool(name, ...) was run for
\* them in the loop of registerTools, and nothing unregisters a tool.
Callable(t, reg, s) == t \in reg

\* The wrapper up to its return when a required setting is missing: call
\* event, error event, return of the isError result; no await in between.
GuardFailure == <<"tool_call", "tool_error", "return_error">>

InvokeGuardFails(t) ==
    /\ regDone /\ Callable(t, registered, settings) /\ ncalls < MaxCalls
    /\ FirstMissing(Catalog[t], settings) # 0
    /\ ncalls' = ncalls + 1
    /\ inv' = [inv EXCEPT ![ncalls + 1] =
                 [NoInvocation EXCEPT !.tool = t, !.state = "returned",
                                      !.result = "error", !.log = GuardFailure]]
    /\ UNCHANGED <<registered, regDone, settings, groupDefault>>
    /\ TFrame

\* A wrapper that calls the handler before it emits the call event.
HandlerEntryLate == <<"handler_start", "tool_call">>

\* The wrapper up to its first await when no required setting is missing:
\* call event, then tool.handler(params, context) is called.
HandlerEntry == EmitEvent(<<>>, "tool_call") \o <<"handler_start">>

InvokeStartsHandler(t) ==
    /\ regDone /\ Callable(t, registered, settings) /\ ncalls < MaxCalls
    /\ FirstMissing(Catalog[t], settings) = 0
    /\ ncalls' = ncalls + 1
    /\ inv' = [inv EXCEPT ![ncalls + 1] =
                 [NoInvocation EXCEPT !.tool = t, !.state = "running", !.log = HandlerEntry]]
    /\ UNCHANGED <<registered, regDone, settings, groupDefault>>
    /\ TFrame

\* A wrapper that emits a result event before it handles the throw.
OnThrowAfterResult(log) ==
    Append(EmitEvent(EmitEvent(log, "tool_result"), "tool_error"), "return_error")

\* catch (err): error event, return of the isError result
OnThrow(log) == Append(EmitEvent(log, "tool_error"), "return_error")

\* after `await tool.handler(...)`: result event, return of the handler's result
OnResolve(log, isError) ==
    Append(EmitEvent(log, "tool_result"), IF isError THEN "return_error" ELSE "return_ok")

\* The handler's promise resolves, with textResult(...) or errorResult(...).
HandlerResolves(id, isError) ==
    /\ inv[id].state = "running"
    /\ inv' = [inv EXCEPT ![id].state = "returned",
                          ![id].handler = "resolved",
                          ![id].result = IF isError THEN "error" ELSE "ok",
                          ![id].log = OnResolve(@, isError)]
    /\ UNCHANGED <<registered, regDone, ncalls, settings, groupDefault>>
    /\ TFrame

\* The handler throws or its promise rejects.
HandlerThrows(id) ==
    /\ inv[id].state = "running"
    /\ inv' = [inv EXCEPT ![id].state = "returned",
                          ![id].handler = "threw",
                          ![id].result = "error",
                          ![id].log = OnThrow(@)]
    /\ UNCHANGED <<registered, regDone, ncalls, settings, groupDefault>>
    /\ TFrame

\* POST /api/tools { name, enabled }: settings.tools[name] = { enabled }
ApiSetToolEnabled(t, on) ==
    /\ regDone
    /\ settings' = [settings EXCEPT !.tools[t] = IF on THEN "on" ELSE "off"]
    /\ settings' # settings
    /\ UNCHANGED <<groupDefault, registered, regDone, inv, ncalls>>
    /\ TFrame

\* POST /api/settings: updateSettings(body)
ApiUpdateSettings(partial) ==
    /\ regDone
    /\ settings' = UpdateSettings(settings, partial)
    /\ settings' # settings
    /\ UNCHANGED <<groupDefault, registered, regDone, inv, ncalls>>
    /\ TFrame

TNext ==
    \/ RegisterTools
    \/ \E t \in ToolNames : InvokeGuardFails(t)
    \/ \E t \in ToolNames : InvokeStartsHandler(t)
    \/ \E id \in CallIds, isError \in BOOLEAN : HandlerResolves(id, isError)
    \/ \E id \in CallIds : HandlerThrows(id)
    \/ \E t \in ToolNames, on \in BOOLEAN : ApiSetToolEnabled(t, on)
    \/ \E partial \in Partials : ApiUpdateSettings(partial)

SIdle ==
    /\ settings = [apiKeys |-> [k \in ApiKeyNames |-> Undefined],
                   database |-> [d \in DbNames |-> NoDb],
                   tools |-> [t \in ToolNames |-> Undefined]]
    /\ groupDefault = CatalogGroupDefault

RIdle ==
    /\ rtool = [name |-> "web_fetch_text", group |-> NoGroup, requiredSettings |-> <<>>]
    /\ rresult = "idle"

TIdle ==
    /\ registered = {}
    /\ regDone = TRUE
    /\ inv = [id \in CallIds |-> NoInvocation]
    /\ ncalls = MaxCalls

-----------------------------------------------------------------------------
(* Event bus: the EventBus class of events.ts                              *)

\* Capacities of the two rings; events.ts has 200 and 1000.
maxRecent == 2
maxTimeseries == 3

\* The model hands at most MaxEmits events to emit.
MaxEmits == 4

\* event.duration of an event that carries none (undefined).
NoDuration == -1

BusTools == {"web_fetch_text", "github_search"}
SessionIds == {"s1", "s2"}
StreamIds == {"sse1", "sse2"}
ProbeIds == {"cb1"}

\* An McpEvent; id stands for the timestamp too (the number of the emit).
McpEvent(id, type, tool, duration, sessionId) ==
    [id |-> id, type |-> type, tool |-> tool, duration |-> duration, sessionId |-> sessionId]

\* A ring that drops the new entry when it is full.
PushShiftNewest(ring, x, cap) ==
    IF Len(ring) >= cap THEN ring ELSE Append(ring, x)

\* ring.push(x); if (ring.length > cap) ring.shift()
PushShift(ring, x, cap) ==
    LET pushed == Append(ring, x)
    IN  IF Len(pushed) > cap THEN Tail(pushed) ELSE pushed

RECURSIVE Gcd(_, _)
Gcd(a, b) == IF b = 0 THEN a ELSE Gcd(b, a % b)

\* A number of the model: the fraction num/den in lowest terms.
Ratio(num, den) ==
    LET g == Gcd(num, den)
    IN  <<num \div g, den \div g>>

\* A running average that weighs the old average with the new count.
RunningAverageOverweight(avg, n, d) == Ratio(avg[1] * n + d * avg[2], avg[2] * n)

\* (ts.avgDuration * (ts.totalCalls - 1) + event.duration) / ts.totalCalls
RunningAverage(avg, n, d) == Ratio(avg[1] * (n - 1) + d * avg[2], avg[2] * n)

\* stats.tools[name] before the first event of the tool.
NoToolStats ==
    [exists |-> FALSE, totalCalls |-> 0, successCount |-> 0, errorCount |-> 0,
     avgDuration |-> <<0, 1>>]

\* An update of the per-tool counters that drops the error count.
CountOutcomeSuccessOnly(ts, success) ==
    [ts EXCEPT !.successCount = IF success THEN @ + 1 ELSE @]

\* if (success) ts.successCount++; else ts.errorCount++;
CountOutcome(ts, success) ==
    [ts EXCEPT !.successCount = IF success THEN @ + 1 ELSE @,
               !.errorCount = IF success THEN @ ELSE @ + 1]

\* updateToolStats(event, success)
UpdateToolStats(tools, e, success) ==
    LET created == IF tools[e.tool].exists THEN tools[e.tool]
                   ELSE [NoToolStats EXCEPT !.exists = TRUE]
        counted == CountOutcome([created EXCEPT !.totalCalls = @ + 1], success)
    IN  [tools EXCEPT ![e.tool] =
            IF e.duration # NoDuration
            THEN [counted EXCEPT !.avgDuration =
                      RunningAverage(@, counted.totalCalls, e.duration)]
            ELSE counted]

\* recordTimeseries(event, success)
RecordTimeseries(ts, e, success) ==
    PushShift(ts, [id |-> e.id, tool |-> e.tool,
                   duration |-> IF e.duration = NoDuration THEN 0 ELSE e.duration,
                   success |-> success], maxTimeseries)

\* A session map that never forgets a session.
SessionsAfterConnectOnly(ss, e) ==
    IF e.type = "session_connect" /\ Truthy(e.sessionId) THEN ss \cup {e.sessionId} ELSE ss

\* A bus that keys the session map on the sessionId alone.
SessionsAfterAnyType(ss, e) ==
    IF e.type = "session_disconnect" /\ Truthy(e.sessionId) THEN ss \ {e.sessionId}
    ELSE IF Truthy(e.sessionId) THEN ss \cup {e.sessionId}
    ELSE ss

\* sessions.set(event.sessionId, ...) on a connect, sessions.delete on a
\* disconnect, each only for a truthy sessionId
SessionsAfter(ss, e) ==
    IF e.type = "session_connect" /\ Truthy(e.sessionId) THEN ss \cup {e.sessionId}
    ELSE IF e.type = "session_disconnect" /\ Truthy(e.sessionId) THEN ss \ {e.sessionId}
    ELSE ss

\* The value of a key that the session map does not hold.
NoSession == [connectedAt |-> 0, clientName |-> "none"]

\* sessions.set(event.sessionId, { sessionId, clientName: event.clientName ||
\* "Unknown", connectedAt: event.timestamp }): a new object at each connect;
\* sessions.delete drops the object.
HeapAfter(h, e) ==
    IF e.type = "session_connect" /\ Truthy(e.sessionId)
    THEN [h EXCEPT ![e.sessionId] = [connectedAt |-> e.id, clientName |-> "Unknown"]]
    ELSE IF e.type = "session_disconnect" /\ Truthy(e.sessionId)
    THEN [h EXCEPT ![e.sessionId] = NoSession]
    ELSE h

\* The fields of the bus that emit changes before it calls the subscribers.
BusState ==
    [recentEvents |-> recentEvents, timeseries |-> timeseries, stats |-> stats,
     sessions |-> sessions]

\* emit(event), up to the loop over the subscribers
Mutated(b, e) ==
    LET counts(success) ==
            [totalInvocations |-> b.stats.totalInvocations + 1,
             successCount |-> b.stats.successCount + (IF success THEN 1 ELSE 0),
             errorCount |-> b.stats.errorCount + (IF success THEN 0 ELSE 1),
             tools |-> UpdateToolStats(b.stats.tools, e, success)]
        isResult == e.type = "tool_result" /\ Truthy(e.tool)
        isError == e.type = "tool_error" /\ Truthy(e.tool)
    IN  [recentEvents |-> PushShift(b.recentEvents, e, maxRecent),
         timeseries |-> IF isResult THEN RecordTimeseries(b.timeseries, e, TRUE)
                        ELSE IF isError THEN RecordTimeseries(b.timeseries, e, FALSE)
                        ELSE b.timeseries,
         stats |-> IF isResult THEN counts(TRUE)
                   ELSE IF isError THEN counts(FALSE)
                   ELSE b.stats,
         sessions |-> SessionsAfter(b.sessions, e)]

\* A bus that calls the subscribers before it records the event.
SeenAtCallbackEarly(before, after) == before

\* The bus a subscriber callback can query while it runs: emit has made all
\* its changes before the loop over the subscribers starts.
SeenAtCallback(before, after) == after

\* What a callback given to subscribe notes of the bus when it is called.
Observation(e, seen) ==
    [id |-> e.id,
     lastId |-> IF Len(seen.recentEvents) = 0 THEN 0
                ELSE seen.recentEvents[Len(seen.recentEvents)].id,
     total |-> seen.stats.totalInvocations,
     points |-> Len(seen.timeseries),
     sessions |-> seen.sessions]

\* A loop over the subscribers that a throwing callback ends.
AfterThrowAbort(i, n) == n + 1

\* try { sub(event) } catch {}: after a callback threw, the loop goes on with
\* the next subscriber.
AfterThrow(i, n) == i + 1

\* The loop over the subscribers from the i-th on. A stream's callback
\* enqueues the event; another callback notes what it sees and throws when it
\* is one of throwers. acc holds the streams, the callbacks' notes and whether
\* an exception left the loop.
RECURSIVE DeliverFrom(_, _, _, _, _, _)
DeliverFrom(i, subs, e, seen, throwers, acc) ==
    IF i > Len(subs) THEN acc
    ELSE IF subs[i] \in StreamIds
    THEN DeliverFrom(i + 1, subs, e, seen, throwers,
                     [acc EXCEPT !.streams[subs[i]].out = Append(@, e.id)])
    ELSE LET called == [acc EXCEPT !.probes[subs[i]] = Append(@, Observation(e, seen))]
         IN  IF subs[i] \in throwers
             THEN DeliverFrom(AfterThrow(i, Len(subs)), subs, e, seen, throwers,
                              [called EXCEPT !.threw = AfterThrow(i, Len(subs)) # i + 1])
             ELSE DeliverFrom(i + 1, subs, e, seen, throwers, called)

\* this.subscribers.add(fn)
Subscribe(subs, fn) ==
    IF \E i \in 1..Len(subs) : subs[i] = fn THEN subs ELSE Append(subs, fn)

\* A cancel that leaves the callback subscribed.
UnsubscribeKept(subs, fn) == subs

\* this.subscribers.delete(fn)
Unsubscribe(subs, fn) == SelectSeq(subs, LAMBDA x : x # fn)

\* A stream that starts without the recent events.
ReplayNothing(recent) == <<>>

\* start(controller): one chunk per recent event, in the order of the ring
Replay(recent) == [i \in 1..Len(recent) |-> recent[i].id]

NoStream == [state |-> "none", out |-> <<>>, createdAt |-> 0, cancelledAt |-> 0]

BInit ==
    /\ subscribers = <<>>
    /\ recentEvents = <<>>
    /\ timeseries = <<>>
    /\ stats = [totalInvocations |-> 0, successCount |-> 0, errorCount |-> 0,
                tools |-> [t \in BusTools |-> NoToolStats]]
    /\ sessions = {}
    /\ heap = [s \in SessionIds |-> NoSession]
    /\ streams = [k \in StreamIds |-> NoStream]
    /\ probes = [p \in ProbeIds |-> <<>>]
    /\ emitted = <<>>
    /\ lastEmit = [id |-> 0, outcome |-> "none", throwers |-> {}]

\* emit(event), with the callbacks of throwers throwing
Emit(e, throwers) ==
    /\ Len(emitted) < MaxEmits
    /\ e.id = Len(emitted) + 1
    /\ LET after == Mutated(BusState, e)
           done == DeliverFrom(1, subscribers, e, SeenAtCallback(BusState, after), throwers,
                               [streams |-> streams, probes |-> probes, threw |-> FALSE])
       IN  /\ recentEvents' = after.recentEvents
           /\ timeseries' = after.timeseries
           /\ stats' = after.stats
           /\ sessions' = after.sessions
           /\ heap' = HeapAfter(heap, e)
           /\ streams' = done.streams
           /\ probes' = done.probes
           /\ lastEmit' = [id |-> e.id,
                           outcome |-> IF done.threw THEN "threw" ELSE "returned",
                           throwers |-> throwers]
    /\ emitted' = Append(emitted, e)
    /\ UNCHANGED subscribers
    /\ BFrame

\* createSSEStream(): replay, then subscribe, both inside the constructor
CreateSSEStream(k) ==
    /\ streams[k].state = "none"
    /\ streams' = [streams EXCEPT ![k] =
          [state |-> "open", out |-> Replay(recentEvents),
           createdAt |-> Len(emitted), cancelledAt |-> 0]]
    /\ subscribers' = Subscribe(subscribers, k)
    /\ UNCHANGED <<recentEvents, timeseries, stats, sessions, heap, probes, emitted, lastEmit>>
    /\ BFrame

\* cancel(): unsub?.()
CancelStream(k) ==
    /\ streams[k].state = "open"
    /\ streams' = [streams EXCEPT ![k].state = "cancelled", ![k].cancelledAt = Len(emitted)]
    /\ subscribers' = Unsubscribe(subscribers, k)
    /\ UNCHANGED <<recentEvents, timeseries, stats, sessions, heap, probes, emitted, lastEmit>>
    /\ BFrame

\* subscribe(fn) for a callback that is not a stream's
SubscribeProbe(p) ==
    /\ \A i \in 1..Len(subscribers) : subscribers[i] # p
    /\ subscribers' = Subscribe(subscribers, p)
    /\ UNCHANGED <<recentEvents, timeseries, stats, sessions, heap, streams, probes,
                   emitted, lastEmit>>
    /\ BFrame

\* The events of the three groups of runs, for the id-th emit.
StatEvents(id) ==
    {McpEvent(id, "tool_call", "web_fetch_text", NoDuration, Undefined),
     McpEvent(id, "tool_result", Undefined, 1, Undefined)}
    \cup {McpEvent(id, "tool_result", t, d, Undefined) : t \in BusTools, d \in {NoDuration, 1, 4}}
    \cup {McpEvent(id, "tool_error", t, 2, Undefined) : t \in BusTools}

SessionEvents(id) ==
    {McpEvent(id, "server_start", Undefined, NoDuration, Undefined),
     McpEvent(id, "session_connect", Undefined, NoDuration, Undefined)}
    \cup {McpEvent(id, ty, Undefined, NoDuration, s) :
            ty \in {"session_connect", "session_disconnect"}, s \in SessionIds}

StreamEvents(id) ==
    {McpEvent(id, "tool_result", "web_fetch_text", 1, Undefined),
     McpEvent(id, "session_connect", Undefined, NoDuration, "s1")}

EmitStat == \E e \in StatEvents(Len(emitted) + 1) : Emit(e, {})

EmitSession == \E e \in SessionEvents(Len(emitted) + 1) : Emit(e, {})

\* The callbacks in the subscriber set that are not a stream's.
SubscribedProbes == {p \in ProbeIds : \E i \in 1..Len(subscribers) : subscribers[i] = p}

EmitToSubscribers ==
    \E e \in StreamEvents(Len(emitted) + 1), throwers \in SUBSET SubscribedProbes :
        Emit(e, throwers)

StatsNext == EmitStat

SessionsNext == EmitSession

StreamsNext ==
    \/ EmitToSubscribers
    \/ \E k \in StreamIds : CreateSSEStream(k)
    \/ \E k \in StreamIds : CancelStream(k)
    \/ \E p \in ProbeIds : SubscribeProbe(p)

-----------------------------------------------------------------------------
(* Specifications                                                          *)

InitUpdate == UInit /\ VIdle /\ SIdle /\ RIdle /\ TIdle /\ BInit /\ XIdle
NextUpdate == UNext
SpecUpdate == InitUpdate /\ [][NextUpdate]_vars

InitVersion == VInit /\ UIdle /\ SIdle /\ RIdle /\ TIdle /\ BInit /\ XIdle
NextVersion == VNext
SpecVersion == InitVersion /\ [][NextVersion]_vars

InitResolver == RInit /\ UIdle /\ VIdle /\ TIdle /\ BInit /\ XIdle
NextResolver == RNext
SpecResolver == InitResolver /\ [][NextResolver]_vars

InitStored == WInit /\ UIdle /\ VIdle /\ TIdle /\ BInit /\ XIdle
NextStored == WNext
SpecStored == InitStored /\ [][NextStored]_vars

InitTools == SInit /\ TInit /\ UIdle /\ VIdle /\ RIdle /\ BInit /\ XIdle
NextTools == TNext
SpecTools == InitTools /\ [][NextTools]_vars

InitBus == BInit /\ UIdle /\ VIdle /\ SIdle /\ RIdle /\ TIdle /\ XIdle

NextStats == StatsNext
SpecStats == InitBus /\ [][NextStats]_vars

NextSessions == SessionsNext
SpecSessions == InitBus /\ [][NextSessions]_vars

NextStreams == StreamsNext
SpecStreams == InitBus /\ [][NextStreams]_vars

-----------------------------------------------------------------------------
(* Properties of the update manager                                        *)

\* C1: while and after performUpdate runs on a directory that held a binary
\* at the install path, the install path is never absent.
InstallPathNeverAbsent ==
    \A c \in UCalls : ubin0[c] # Absent => fs.bin # Absent

\* C2: once the manifest's hash for the asset differs from the hash of the
\* download, the call renames nothing, leaves the install path's content as
\* it was, and ends by raising an error.
ChecksumMismatchAborts ==
    \A c \in UCalls : uverify[c] = "mismatch" =>
        /\ ~urenamed[c]
        /\ fs.bin = ubin0[c]
        /\ upc[c] = "done" => uout[c] # "ok"

\* The install rename of call c failed after its backup rename succeeded.
InstallFailedAfterBackup(c) ==
    /\ upc[c] = "done"
    /\ "install" \in ufailed[c]
    /\ ubin0[c] # Absent

\* C3: after a failed install rename that followed a successful
\* backup rename, the call has raised and the install path holds the
\* original binary.
RollbackAlwaysRestores ==
    \A c \in UCalls : InstallFailedAfterBackup(c) =>
        /\ uout[c] \notin {"none", "ok"}
        /\ fs.bin = ubin0[c]

\* What the rollback does guarantee: after a failed install rename that followed a successful
\* backup rename, the call has raised; the install path holds the original
\* binary when the rollback rename did not fail, and is absent when it did.
RollbackRestoresUnlessRestoreFails ==
    \A c \in UCalls : InstallFailedAfterBackup(c) =>
        /\ uout[c] \notin {"none", "ok"}
        /\ "restore" \notin ufailed[c] => (fs.bin = ubin0[c] /\ fs.bak = Absent)
        /\ "restore" \in ufailed[c] => fs.bin = Absent

RollbackWitness ==
    \E c \in UCalls :
        /\ InstallFailedAfterBackup(c)
        /\ "restore" \notin ufailed[c]
        /\ urenamed[c]
        /\ fs.bin = "old"

\* The step of call c that receives an unusable manifest skips the
\* verification: it raises nothing, touches no file and goes on to step 3.
ManifestSkipStep ==
    \A c \in UCalls :
        (upc[c] = "sums" /\ upc'[c] # "sums" /\ umanifest'[c] \in NoManifest) =>
            /\ upc'[c] = "chmod"
            /\ uverify'[c] = "skipped"
            /\ uout'[c] = "none"
            /\ fs' = fs

\* C4 as stated: an unusable manifest skips the verification and the call
\* goes on, and a call that returns without raising has had no other
\* failure than that of the manifest fetch.
OnlyManifestFailureSwallowed ==
    /\ [][ManifestSkipStep]_vars
    /\ [](\A c \in UCalls : uout[c] = "ok" => ufailed[c] \subseteq {"manifest"})

\* C4 amended: an unusable manifest skips the verification and the call goes
\* on; a call that returns without raising has had no failure other than
\* the manifest fetch, the removal of the backup, or the removal of the
\* temp file after a hash mismatch.
ManifestSkippedAndSwallowedFailures ==
    /\ [][ManifestSkipStep]_vars
    /\ [](\A c \in UCalls :
            uout[c] = "ok" => ufailed[c] \subseteq {"manifest", "unlink_bak", "unlink_tmp"})

ManifestSkipWitness ==
    \E c \in UCalls :
        /\ umanifest[c] \in {"fetch_throws", "not_ok"}
        /\ uout[c] = "ok"
        /\ fs.bin = udata[c]

-----------------------------------------------------------------------------
(* Properties of the version check                                         *)

\* The i-th component of version string s as the claim counts it: 0 when it
\* is missing or is no number.
ComponentOf(s, i) ==
    LET parts == SplitDots(s)
    IN  IF i > Len(parts) THEN 0
        ELSE IF ToNumber(parts[i]) = NaN THEN 0 ELSE ToNumber(parts[i])

\* (major, minor, patch) of b is greater than that of a in lexicographic order.
TripleGreater(a, b) ==
    \/ ComponentOf(b, 1) > ComponentOf(a, 1)
    \/ /\ ComponentOf(b, 1) = ComponentOf(a, 1)
       /\ ComponentOf(b, 2) > ComponentOf(a, 2)
    \/ /\ ComponentOf(b, 1) = ComponentOf(a, 1)
       /\ ComponentOf(b, 2) = ComponentOf(a, 2)
       /\ ComponentOf(b, 3) > ComponentOf(a, 3)

\* C5 as stated: when the release was fetched, an update is reported exactly
\* when the tag without its leading "v" is greater than the running version
\* as a triple, and the reported latest is the tag without its leading "v".
UpdateIffTagGreater ==
    vfetched =>
        /\ vres = "update" <=> TripleGreater(vcur, StripV(vtag))
        /\ vres = "update" => vlatest = StripV(vtag)

\* C5 amended: when the release was fetched and lists the platform's asset,
\* an update is reported exactly when the tag with up to two leading "v"
\* removed is greater than the running version as a triple; otherwise no
\* update is reported; a tag that is not greater gives no update whatever the
\* assets; the reported latest is the tag with one leading "v" removed.
UpdateIffTwiceStrippedTagGreater ==
    vfetched =>
        /\ vasset => (vres = "update" <=> TripleGreater(vcur, StripV(StripV(vtag))))
        /\ vasset => (vres = "none" <=> ~TripleGreater(vcur, StripV(StripV(vtag))))
        /\ ~TripleGreater(vcur, StripV(StripV(vtag))) => vres = "none"
        /\ vres = "update" => vlatest = StripV(vtag)

\* Running 1.2.3 against v1.3.0: an update whose latest is 1.3.0.
UpdateWitness ==
    /\ vcur = <<"1", ".", "2", ".", "3">>
    /\ vtag = <<"v", "1", ".", "3", ".", "0">>
    /\ vres = "update"
    /\ vlatest = <<"1", ".", "3", ".", "0">>

-----------------------------------------------------------------------------
(* Properties of the invocation wrapper and of the enablement resolver     *)

\* A required path resolves to a non-empty value in configuration s, read off
\* the configuration directly: an API key that is there and is not "", a
\* database entry that is there, a database field that is there and not "".
PathPresent(s, path) ==
    CASE path[1] = "apiKeys" -> s.apiKeys[path[2]] # Undefined /\ s.apiKeys[path[2]] # ""
      [] path[1] = "database" /\ Len(path) = 2 -> s.database[path[2]].exists
      [] path[1] = "database" /\ Len(path) = 3 ->
            /\ s.database[path[2]].exists
            /\ s.database[path[2]].fields[path[3]] # Undefined
            /\ s.database[path[2]].fields[path[3]] # ""

SomeRequiredMissing(tool, s) ==
    \E i \in 1..Len(tool.requiredSettings) : ~PathPresent(s, tool.requiredSettings[i])

\* How many entries of log are `kind`.
CountOf(log, kind) == Cardinality({i \in 1..Len(log) : log[i] = kind})

\* The step in which the wrapper of call id is entered.
WrapperEntered(id) == inv[id].state = "unused" /\ inv'[id].state # "unused"

\* C6: a call made while a required path of its tool is missing or empty
\* returns at once with an error result, after exactly one error event and
\* without calling the handler; a call that has returned does nothing more.
GuardFailureSkipsHandler ==
    /\ [][\A id \in CallIds :
            (WrapperEntered(id) /\ SomeRequiredMissing(Catalog[inv'[id].tool], settings)) =>
                /\ inv'[id].state = "returned"
                /\ inv'[id].result = "error"
                /\ CountOf(inv'[id].log, "tool_error") = 1
                /\ CountOf(inv'[id].log, "tool_result") = 0
                /\ CountOf(inv'[id].log, "handler_start") = 0]_vars
    /\ [][\A id \in CallIds : inv[id].state = "returned" => inv'[id] = inv[id]]_vars

\* A call of a registered tool whose required setting is gone by now was
\* short-circuited.
GuardFailureWitness ==
    \E id \in CallIds :
        /\ inv[id].state = "returned"
        /\ inv[id].tool \in registered
        /\ settings.tools[inv[id].tool] # "off"
        /\ SomeRequiredMissing(Catalog[inv[id].tool], settings)
        /\ inv[id].log = <<"tool_call", "tool_error", "return_error">>

\* C7: a call whose handler threw has emitted exactly one error event and no
\* result event, and has returned an error result to the protocol layer.
HandlerThrowContained ==
    \A id \in CallIds : inv[id].handler = "threw" =>
        /\ inv[id].state = "returned"
        /\ inv[id].result = "error"
        /\ CountOf(inv[id].log, "tool_error") = 1
        /\ CountOf(inv[id].log, "tool_result") = 0
        /\ inv[id].log[Len(inv[id].log)] = "return_error"

HandlerThrowWitness ==
    \E id \in CallIds : inv[id].handler = "threw" /\ CountOf(inv[id].log, "handler_start") = 1

\* The events of the bus among the entries of log, in order.
EventsOf(log) == SelectSeq(log, LAMBDA k : k \in EventKinds)

\* The terminal event of a call whose handler settled as h, or was not called.
TerminalEvent(h) == IF h = "resolved" THEN "tool_result" ELSE "tool_error"

\* C8: the events of an invocation are one call event, which comes first and
\* before the handler is called, and, once it has returned, exactly one
\* terminal event after it: a result event if the handler resolved, an error
\* event otherwise.
CallEventThenOneTerminalEvent ==
    \A id \in CallIds : inv[id].state # "unused" =>
        /\ inv[id].log[1] = "tool_call"
        /\ inv[id].state = "running" => EventsOf(inv[id].log) = <<"tool_call">>
        /\ inv[id].state = "returned" =>
              EventsOf(inv[id].log) = <<"tool_call", TerminalEvent(inv[id].handler)>>

\* Two invocations overlap and the later one has finished first.
InterleavedCallsWitness ==
    \E i, j \in CallIds :
        /\ i < j
        /\ inv[i].state = "running"
        /\ inv[j].state = "returned"
        /\ inv[j].handler = "resolved"

\* C9: the handler of a call is started only if isToolEnabled holds for the
\* tool in the configuration as it is when the call is made.
HandlerStartsOnlyIfEnabled ==
    [][\A id \in CallIds :
          (WrapperEntered(id) /\ inv'[id].state = "running") =>
              IsToolEnabled(Catalog[inv'[id].tool], settings, groupDefault) = "true"]_vars

\* C10: with an override for the tool in the configuration, isToolEnabled
\* gives true exactly when the override is true and every required path is
\* present; an override of false gives false.
ExplicitOverrideDecides ==
    (rresult \in {"true", "false"} /\ settings.tools[rtool.name] # Undefined) =>
        /\ rresult = "true" <=>
              /\ settings.tools[rtool.name] = "on"
              /\ ~SomeRequiredMissing(rtool, settings)
        /\ settings.tools[rtool.name] = "off" => rresult = "false"

\* An override of true on a tool with two required paths, both present, in a
\* group that is disabled by default.
ExplicitOverrideWitness ==
    /\ rresult = "true"
    /\ settings.tools[rtool.name] = "on"
    /\ Len(rtool.requiredSettings) = 2
    /\ rtool.group \in GroupIds
    /\ ~groupDefault[rtool.group]

-----------------------------------------------------------------------------
(* Properties of the enablement resolver without an override, and on       *)
(* stored configurations                                                   *)

\* C11: without an override for the tool, isToolEnabled of a tool with
\* required paths is true exactly when every one of them is present, whatever
\* the group's default; of a tool without required paths it is the default of
\* its group, and true when it names no group (or none that is registered).
NoOverrideFallsBack ==
    (rresult \notin {"pending", "idle"} /\ settings.tools[rtool.name] = Undefined) =>
        /\ rresult \in {"true", "false"}
        /\ Len(rtool.requiredSettings) > 0 =>
              (rresult = "true" <=> ~SomeRequiredMissing(rtool, settings))
        /\ (Len(rtool.requiredSettings) = 0 /\ rtool.group \in GroupIds) =>
              (rresult = "true" <=> groupDefault[rtool.group])
        /\ (Len(rtool.requiredSettings) = 0 /\ rtool.group \notin GroupIds) =>
              rresult = "true"

\* A tool with a required path that is present, in a group that is disabled
\* by default, resolved to true.
NoOverrideWitness ==
    /\ rresult = "true"
    /\ settings.tools[rtool.name] = Undefined
    /\ Len(rtool.requiredSettings) > 0
    /\ rtool.group \in GroupIds
    /\ ~groupDefault[rtool.group]

\* C12: on every configuration the management requests can store,
\* isToolEnabled returns a boolean and does not throw.
ResolverTotalOnStored ==
    rresult \notin {"pending", "idle"} => rresult \in {"true", "false"}

-----------------------------------------------------------------------------
(* Properties of the event bus                                             *)

\* The last n entries of a sequence.
LastN(seq, n) == SubSeq(seq, IF Len(seq) > n THEN Len(seq) - n + 1 ELSE 1, Len(seq))

IdsOf(seq) == [i \in 1..Len(seq) |-> seq[i].id]

\* The events that count for the statistics: results and errors of a tool.
IsOutcome(e) == e.type \in {"tool_result", "tool_error"} /\ e.tool \notin {Undefined, ""}

OutcomesIn(seq) == SelectSeq(seq, IsOutcome)

OutcomesOf(seq, t) == SelectSeq(seq, LAMBDA e : IsOutcome(e) /\ e.tool = t)

\* C13: the recent-event ring holds at most maxRecent events and the
\* timeseries ring at most maxTimeseries points; each holds the latest entries
\* appended to it, in emission order, so a push on a full ring evicts the
\* oldest entry only, and a ring is evicted only by its own entries.
RingsHoldLatest ==
    /\ Len(recentEvents) <= maxRecent
    /\ Len(timeseries) <= maxTimeseries
    /\ recentEvents = LastN(emitted, maxRecent)
    /\ IdsOf(timeseries) = IdsOf(LastN(OutcomesIn(emitted), maxTimeseries))

\* Both rings have evicted, the recent-event ring more often than the
\* timeseries ring.
RingsEvictedWitness ==
    /\ Len(OutcomesIn(emitted)) = maxTimeseries + 1
    /\ Len(timeseries) = maxTimeseries
    /\ Len(recentEvents) = maxRecent
    /\ timeseries[1].id < recentEvents[1].id
    /\ timeseries[Len(timeseries)].id = Len(emitted)

RECURSIVE SumDurations(_)
SumDurations(seq) == IF Len(seq) = 0 THEN 0 ELSE seq[1].duration + SumDurations(Tail(seq))

AllCarryDuration(seq) == \A i \in 1..Len(seq) : seq[i].duration # NoDuration

RECURSIVE SumTotalCalls(_)
SumTotalCalls(ts) ==
    IF ts = {} THEN 0
    ELSE LET t == CHOOSE x \in ts : TRUE
         IN  stats.tools[t].totalCalls + SumTotalCalls(ts \ {t})

\* C15: every per-tool record has successCount + errorCount = totalCalls,
\* and totalInvocations = successCount + errorCount = the sum of the per-tool
\* totalCalls.
CountersAgree ==
    /\ \A t \in BusTools :
          stats.tools[t].successCount + stats.tools[t].errorCount = stats.tools[t].totalCalls
    /\ stats.totalInvocations = stats.successCount + stats.errorCount
    /\ stats.totalInvocations = SumTotalCalls(BusTools)

\* Results and errors of two tools, next to events that do not count.
CountersWitness ==
    /\ stats.successCount > 0
    /\ stats.errorCount > 0
    /\ \A t \in BusTools : stats.tools[t].exists
    /\ stats.totalInvocations < Len(emitted)

\* The latest connect or disconnect of session s among the events, 0 if none.
LatestSessionEvent(seq, s) ==
    LET at == {i \in 1..Len(seq) :
                 /\ seq[i].type \in {"session_connect", "session_disconnect"}
                 /\ seq[i].sessionId = s}
    IN  IF at = {} THEN 0 ELSE CHOOSE i \in at : \A j \in at : j <= i

ConnectedIn(seq) ==
    {s \in SessionIds :
        /\ LatestSessionEvent(seq, s) # 0
        /\ seq[LatestSessionEvent(seq, s)].type = "session_connect"}

\* C16: the session map has key S exactly when a connect for S was emitted
\* and no disconnect for S after the latest one.
SessionsFollowConnects == sessions = ConnectedIn(emitted)

\* A session connected, other events, then its disconnect, while another
\* session stays connected.
SessionsWitness ==
    /\ Len(emitted) = MaxEmits
    /\ emitted[1].type = "session_connect" /\ emitted[1].sessionId = "s1"
    /\ emitted[2].type = "session_connect" /\ emitted[2].sessionId = "s2"
    /\ emitted[3].type = "server_start"
    /\ emitted[MaxEmits].type = "session_disconnect" /\ emitted[MaxEmits].sessionId = "s1"
    /\ sessions = {"s2"}

\* The step is a call of emit.
EmitStep == emitted' # emitted

\* The event of the emit step.
EmittedNow == emitted'[Len(emitted')]

\* C17: in every emit, whichever callbacks throw, every subscriber is called
\* once with the event, emit returns, and the rings, the statistics and the
\* session map become what emit makes of them without any subscriber.
ThrowingSubscriberIsolated ==
    [][EmitStep =>
          /\ lastEmit'.outcome = "returned"
          /\ \A i \in 1..Len(subscribers) :
                IF subscribers[i] \in StreamIds
                THEN streams'[subscribers[i]].out
                        = Append(streams[subscribers[i]].out, EmittedNow.id)
                ELSE /\ Len(probes'[subscribers[i]]) = Len(probes[subscribers[i]]) + 1
                     /\ probes'[subscribers[i]][Len(probes'[subscribers[i]])].id = EmittedNow.id
          /\ BusState' = Mutated(BusState, EmittedNow)]_vars

\* The first subscriber threw in the latest emit, and the stream subscribed
\* after it has the event.
ThrowingSubscriberWitness ==
    /\ lastEmit.throwers # {}
    /\ Len(subscribers) >= 2
    /\ subscribers[1] \in lastEmit.throwers
    /\ subscribers[2] \in StreamIds
    /\ streams[subscribers[2]].out # <<>>
    /\ streams[subscribers[2]].out[Len(streams[subscribers[2]].out)] = lastEmit.id

\* C18: whenever a subscriber callback runs for an event, the bus already
\* holds the event: it is the last of the recent events, and the counters,
\* the timeseries and the session map include it.
SubscriberSeesEventRecorded ==
    \A p \in ProbeIds : \A i \in 1..Len(probes[p]) :
        LET o == probes[p][i]
            upTo == SubSeq(emitted, 1, o.id)
        IN  /\ o.lastId = o.id
            /\ o.total = Len(OutcomesIn(upTo))
            /\ o.points = Len(LastN(OutcomesIn(upTo), maxTimeseries))
            /\ o.sessions = ConnectedIn(upTo)

\* A callback was called for a result and for a connect, each the first of
\* its kind.
SubscriberSeesWitness ==
    \E p \in ProbeIds : \E i, j \in 1..Len(probes[p]) :
        /\ emitted[probes[p][i].id].type = "tool_result" /\ probes[p][i].total = 1
        /\ emitted[probes[p][j].id].type = "session_connect" /\ probes[p][j].sessions = {"s1"}

\* The numbers a..b in order.
Range(a, b) == [i \in 1..(IF b >= a THEN b - a + 1 ELSE 0) |-> a + i - 1]

\* C19: a stream has been given the recent events as they were when it was
\* created, then every event emitted since, up to its cancellation, each
\* once and in emission order.
StreamGetsReplayThenAll ==
    \A k \in StreamIds : streams[k].state # "none" =>
        streams[k].out =
            IdsOf(LastN(SubSeq(emitted, 1, streams[k].createdAt), maxRecent))
            \o Range(streams[k].createdAt + 1,
                     IF streams[k].state = "open" THEN Len(emitted) ELSE streams[k].cancelledAt)

\* A stream created when the ring had already evicted, with an event emitted
\* after its creation.
StreamReplayWitness ==
    \E k \in StreamIds :
        /\ streams[k].state = "open"
        /\ streams[k].createdAt > maxRecent
        /\ Len(emitted) > streams[k].createdAt

\* C20: the streams in the subscriber set are the streams that are not
\* cancelled, and nothing is enqueued on a cancelled stream.
CancelledStreamsUnsubscribed ==
    /\ [](\A k \in StreamIds :
            (\E i \in 1..Len(subscribers) : subscribers[i] = k) <=> streams[k].state = "open")
    /\ [][\A k \in StreamIds : streams[k].state = "cancelled" => streams'[k] = streams[k]]_vars

\* One stream cancelled, the other open, and an event emitted since the
\* cancellation.
CancelledStreamWitness ==
    \E k, j \in StreamIds :
        /\ streams[k].state = "cancelled"
        /\ streams[j].state = "open"
        /\ streams[k].cancelledAt > streams[k].createdAt
        /\ Len(emitted) > streams[k].cancelledAt

\* The call c got past `await Bun.write(tmpPath, data)`: only then does it
\* ask for the manifest.
WroteTmp(c) == umanifest[c] # "pending"

\* C29: when a call that wrote its temporary file has ended, by returning or
\* by raising, no file is at the temporary path.
TmpRemovedWhenCallEnds ==
    \A c \in UCalls : (upc[c] = "done" /\ WroteTmp(c)) => fs.tmp = Absent

\* What the call does guarantee: a file is left at the temporary path only
\* when chmodSync or an unlinkSync of the temporary path failed.
TmpLeftOnlyAfterChmodOrUnlinkFailure ==
    \A c \in UCalls :
        (upc[c] = "done" /\ WroteTmp(c) /\ fs.tmp # Absent)
            => ufailed[c] \cap {"chmod", "unlink_tmp"} # {}

\* A call that wrote the file and ended on a failed chmodSync, every unlinkSync
\* having succeeded.
TmpLeftByChmodWitness ==
    \E c \in UCalls :
        /\ upc[c] = "done" /\ WroteTmp(c)
        /\ ufailed[c] = {"chmod"}
        /\ fs.tmp = udata[c]

\* The per-tool counters that emit keeps for the events of one invocation:
\* each result or error event of `log` is counted with success = (type is
\* "tool_result").
RECURSIVE CountedFrom(_, _)
CountedFrom(log, ts) ==
    IF log = <<>> THEN ts
    ELSE CountedFrom(Tail(log),
                     IF Head(log) \in {"tool_result", "tool_error"}
                     THEN CountOutcome([ts EXCEPT !.totalCalls = @ + 1], Head(log) = "tool_result")
                     ELSE ts)

\* C26: a call that returned a result flagged as error has emitted an error
\* event, and is counted in errorCount and not in successCount.
ErrorResultCountedAsError ==
    \A id \in CallIds :
        (inv[id].state = "returned" /\ inv[id].result = "error") =>
            /\ CountOf(inv[id].log, "tool_error") >= 1
            /\ CountedFrom(inv[id].log, NoToolStats).errorCount = 1
            /\ CountedFrom(inv[id].log, NoToolStats).successCount = 0

\* What the wrapper does guarantee: an error result that the wrapper built
\* itself (guard failure, handler throw) comes with one error event.
WrapperBuiltErrorCountedAsError ==
    \A id \in CallIds :
        (inv[id].state = "returned" /\ inv[id].result = "error" /\ inv[id].handler # "resolved") =>
            /\ CountedFrom(inv[id].log, NoToolStats).errorCount = 1
            /\ CountedFrom(inv[id].log, NoToolStats).successCount = 0

\* A handler that resolved with errorResult(...): the call is counted as a
\* success.
ErrorResultCountedAsSuccessWitness ==
    \E id \in CallIds :
        /\ inv[id].handler = "resolved" /\ inv[id].result = "error"
        /\ CountedFrom(inv[id].log, NoToolStats).successCount = 1

-----------------------------------------------------------------------------
(* Two performUpdate calls in flight at once: the mcpy_update tool and     *)
(* POST /api/update both call it, and nothing serialises them.             *)

ConcurrentCalls == {1, 2}

\* Where a call is suspended on an await (fetch, arrayBuffer, Bun.write,
\* fetch of the manifest, text): the other call can run.  From the hash
\* comparison to the return the code is synchronous.
AwaitPoints == {"download", "write", "sums"}

Suspended(c) == upc[c] \in AwaitPoints \cup {"done"}

ConcurrentInit ==
    /\ fs = [bin |-> "old", tmp |-> Absent, bak |-> Absent]
    /\ upc = [c \in ConcurrentCalls |-> "download"]
    /\ udata = [c \in ConcurrentCalls |-> Absent]
    /\ umanifest = [c \in ConcurrentCalls |-> "pending"]
    /\ uverify = [c \in ConcurrentCalls |-> "pending"]
    /\ uout = [c \in ConcurrentCalls |-> "none"]
    /\ ufailed = [c \in ConcurrentCalls |-> {}]
    /\ urenamed = [c \in ConcurrentCalls |-> FALSE]
    /\ ubin0 = [c \in ConcurrentCalls |-> fs.bin]

\* One step of call c: the event loop runs it only while the other call is
\* suspended or has ended.
ConcurrentStep(c) ==
    /\ \A d \in ConcurrentCalls \ {c} : Suspended(d)
    /\ PerformUpdate(c)

InitConcurrent == ConcurrentInit /\ VIdle /\ SIdle /\ RIdle /\ TIdle /\ BInit /\ XIdle
NextConcurrent == \E c \in ConcurrentCalls : ConcurrentStep(c)
SpecConcurrent == InitConcurrent /\ [][NextConcurrent]_vars

\* The step in which call c renames the temporary file into the install path.
Installs(c) == upc[c] = "install" /\ upc'[c] = "remove_backup"

\* C28: the bytes that a call renames into the install path are the bytes it
\* downloaded and compared with the manifest, never bytes that another call
\* wrote to the temporary path.
InstallsOwnDownload ==
    [][\A c \in DOMAIN upc : Installs(c) => fs'.bin = udata[c]]_vars

\* What the calls do guarantee: the installed bytes are bytes that one of the
\* calls in flight downloaded.
InstallsSomeDownload ==
    [][\A c \in DOMAIN upc : Installs(c) => \E d \in DOMAIN upc : fs'.bin = udata[d]]_vars

\* A call installed the other call's bytes after its own bytes had matched the
\* manifest.
InstalledOtherDownloadWitness ==
    \E c, d \in DOMAIN upc :
        /\ c # d
        /\ upc[c] = "remove_backup" /\ uverify[c] = "matched"
        /\ fs.bin = udata[d] /\ fs.bin # udata[c]

-----------------------------------------------------------------------------
(* emit for one event of each type, with and without the optional fields   *)

\* One event of each type of McpEvent for the id-th emit; tool, duration and
\* sessionId are optional on every type, so the session events carry a tool
\* name and the outcome events a session id.
TypedEvents(id) ==
    {McpEvent(id, "tool_call", "web_fetch_text", NoDuration, "s1"),
     McpEvent(id, "server_start", Undefined, NoDuration, Undefined),
     McpEvent(id, "session_connect", "web_fetch_text", 1, "s1"),
     McpEvent(id, "session_disconnect", "web_fetch_text", 1, "s1"),
     McpEvent(id, "tool_result", Undefined, 1, "s2"),
     McpEvent(id, "tool_error", "", 2, "s2"),
     McpEvent(id, "tool_result", "web_fetch_text", 1, "s2"),
     McpEvent(id, "tool_error", "github_search", 2, "s1")}

EmitTyped == \E e \in TypedEvents(Len(emitted) + 1) : Emit(e, {})

NextTyped == EmitTyped
SpecTyped == InitBus /\ [][NextTyped]_vars

\* C30: an emit of an event that is not a result or error of a named tool
\* leaves the counters, the per-tool records and the timeseries ring as they
\* were; an emit of a result or error event leaves the session map as it was.
EmitChangesOnlyItsOwnState ==
    [][EmitStep =>
          /\ ~IsOutcome(EmittedNow) => (stats' = stats /\ timeseries' = timeseries)
          /\ EmittedNow.type \in {"tool_result", "tool_error"} => sessions' = sessions]_vars

\* After a result with a session id, a connect with a tool name and a result
\* without a tool name: one call counted, one point, one session.
EmitOwnStateWitness ==
    /\ \E i \in 1..Len(emitted) :
          emitted[i].type = "tool_result" /\ emitted[i].tool = "web_fetch_text"
    /\ \E i \in 1..Len(emitted) : emitted[i].type = "session_connect"
    /\ \E i \in 1..Len(emitted) : emitted[i].type = "tool_result" /\ emitted[i].tool = Undefined
    /\ \E i \in 1..Len(emitted) : emitted[i].type = "tool_call"
    /\ stats.totalInvocations = 1
    /\ Len(timeseries) = 1
    /\ sessions = {"s1"}

-----------------------------------------------------------------------------
(* The settings page: POST /api/settings with new secrets, and with the    *)
(* redacted settings it read from GET /api/settings                        *)

\* The secrets a client stores: shorter than, as long as and longer than the
\* four characters that redactSettings shows.
Secrets == {"key", "abcd", "secret"}

SecretPartials ==
    {[NoPartial EXCEPT !.apiKeys = a] : a \in [ApiKeyNames -> Secrets \cup {"", Null}]}
    \cup {[NoPartial EXCEPT !.database = d] :
            d \in [DbNames -> {NullDb} \cup [kind : {"object"},
                                             fields : [DbFields -> Secrets \cup {Omit, ""}]]]}
    \cup {[NoPartial EXCEPT !.tools = [NoPartial.tools EXCEPT ![t] = o]] :
            t \in {"github_search", "postgres_query"}, o \in {"on", "off"}}

PInit ==
    /\ settings = DefaultSettings
    /\ groupDefault = CatalogGroupDefault
    /\ posted = NoPartial

\* POST /api/settings { apiKeys | database | tools }
PostSecrets(partial) ==
    /\ settings' = UpdateSettings(settings, partial)
    /\ posted' = partial
    /\ UNCHANGED groupDefault
    /\ PFrame

\* GET /api/settings, then POST /api/settings with the object received
PostRedacted ==
    /\ posted' = JsonBody(RedactSettings(settings))
    /\ settings' = UpdateSettings(settings, posted')
    /\ UNCHANGED groupDefault
    /\ PFrame

InitRoundTrip == PInit /\ UIdle /\ VIdle /\ RIdle /\ TIdle /\ BInit /\ LIdle /\ CIdle /\ HIdle
NextRoundTrip ==
    \/ \E partial \in SecretPartials : PostSecrets(partial)
    \/ PostRedacted
SpecRoundTrip == InitRoundTrip /\ [][NextRoundTrip]_vars

\* C23: an updateSettings with the redacted form of the stored settings
\* leaves every API key and every database password as it was.
RedactedWriteBackKeepsSecrets ==
    [][posted' = JsonBody(RedactSettings(settings)) =>
          /\ settings'.apiKeys = settings.apiKeys
          /\ \A d \in DbNames :
                settings'.database[d].fields["password"] = settings.database[d].fields["password"]]_vars

\* The redacted form of a short API key and a long password was written
\* back, and both are still stored.
RedactedWriteBackWitness ==
    /\ posted = JsonBody(RedactSettings(settings))
    /\ posted.apiKeys["github"] = "***"
    /\ posted.database["postgres"].fields["password"] = "***"
    /\ settings.apiKeys["github"] = "key"
    /\ settings.database["postgres"].fields["password"] = "secret"

-----------------------------------------------------------------------------
(* Process lifecycle: Bun.serve at startup (index.ts), the shared server   *)
(* reference (server.ts), and the restart and update paths that end the    *)
(* process (tools/mcpy, api.ts)                                            *)

\* The setTimeout callbacks that end the process.
ExitTimers == {"mcpy_restart", "mcpy_update", "api_update"}

\* What checkForUpdate and performUpdate give an update request.
UpdateOutcomes == {"up_to_date", "updated", "failed"}

\* setHttpServer(server): no module of the program calls it.
SetHttpServer(p) == [p EXCEPT !.httpServer = "server"]

\* shutdownHttpServer(): if (httpServer) { await httpServer.stop(true); httpServer = null }
ShutdownHttpServer(p) ==
    IF p.httpServer # Null THEN [p EXCEPT !.listening = FALSE, !.httpServer = Null] ELSE p

LInit ==
    proc = [started |-> FALSE, listening |-> FALSE, httpServer |-> Null,
            timers |-> {}, stopping |-> {}, exited |-> FALSE, reply |-> "none"]

\* const httpServer = Bun.serve({ port: PORT, ... }): the server is kept in a
\* local constant of index.ts.
ServeOk ==
    /\ ~proc.started
    /\ proc' = [proc EXCEPT !.started = TRUE, !.listening = TRUE]
    /\ LFrame

\* Bun.serve throws (port in use): caught, the stdio transport goes on.
ServeFails ==
    /\ ~proc.started
    /\ proc' = [proc EXCEPT !.started = TRUE]
    /\ LFrame

\* mcpyRestart.handler({ confirm })
McpyRestart(confirm) ==
    /\ proc.started /\ ~proc.exited
    /\ proc' = IF confirm
               THEN [proc EXCEPT !.timers = @ \cup {"mcpy_restart"}, !.reply = "restarting"]
               ELSE [proc EXCEPT !.reply = "error"]
    /\ LFrame

\* mcpyUpdate.handler({ apply: true })
McpyUpdate(outcome) ==
    /\ proc.started /\ ~proc.exited
    /\ proc' = IF outcome = "updated"
               THEN [proc EXCEPT !.timers = @ \cup {"mcpy_update"}, !.reply = "updated"]
               ELSE [proc EXCEPT !.reply = IF outcome = "failed" THEN "error" ELSE outcome]
    /\ LFrame

\* POST /api/update: reaches the process only through the HTTP server
ApiUpdate(outcome) ==
    /\ proc.started /\ ~proc.exited /\ proc.listening
    /\ proc' = IF outcome = "updated"
               THEN [proc EXCEPT !.timers = @ \cup {"api_update"}, !.reply = "updated"]
               ELSE [proc EXCEPT !.reply = IF outcome = "failed" THEN "error" ELSE outcome]
    /\ LFrame

\* The timer callback runs up to its await: await shutdownHttpServer()
TimerFires(k) ==
    /\ ~proc.exited /\ k \in proc.timers
    /\ proc' = [ShutdownHttpServer(proc) EXCEPT !.timers = @ \ {k}, !.stopping = @ \cup {k}]
    /\ LFrame

\* The callback resumes: process.exit(0)
ProcessExit(k) ==
    /\ ~proc.exited /\ k \in proc.stopping
    /\ proc' = [proc EXCEPT !.exited = TRUE]
    /\ LFrame

LNext ==
    \/ ServeOk
    \/ ServeFails
    \/ \E confirm \in BOOLEAN : McpyRestart(confirm)
    \/ \E outcome \in UpdateOutcomes : McpyUpdate(outcome)
    \/ \E outcome \in UpdateOutcomes : ApiUpdate(outcome)
    \/ \E k \in ExitTimers : TimerFires(k)
    \/ \E k \in ExitTimers : ProcessExit(k)

InitLifecycle ==
    LInit /\ UIdle /\ VIdle /\ SIdle /\ RIdle /\ TIdle /\ BInit /\ PIdle /\ CIdle /\ HIdle
NextLifecycle == LNext
SpecLifecycle == InitLifecycle /\ [][NextLifecycle]_vars

\* C24: when the process has exited through a restart or an update, the HTTP
\* server had been stopped and its port released.
ServerStoppedBeforeExit == proc.exited => ~proc.listening

\* What the paths do guarantee: the process exits only from a timer callback
\* that has called shutdownHttpServer, and a server that was never started
\* holds no port.
ExitOnlyAfterShutdownCall ==
    /\ proc.exited => proc.stopping # {}
    /\ proc.httpServer = Null
    /\ ~proc.started => ~proc.listening

\* The process exited after a confirmed restart with the port still bound.
ExitWithPortBoundWitness ==
    /\ proc.exited /\ proc.listening
    /\ "mcpy_restart" \in proc.stopping

-----------------------------------------------------------------------------
(* TtlCache of tools/developer/lib: a Map in insertion order, with the     *)
(* clock Date.now() as a counter that never goes back                      *)

\* new TtlCache(ttl, maxSize), and the last reading of the clock.
ttl == 1
maxSize == 3
MaxClock == 2

CacheKeys == {"k1", "k2", "k3", "k4"}
CacheContents == {"v1", "v2"}

\* The index of key in the store, 0 when the Map has no such key.
IndexOfKey(store, key) ==
    IF \E i \in 1..Len(store) : store[i].key = key
    THEN CHOOSE i \in 1..Len(store) : store[i].key = key
    ELSE 0

\* store.delete(store[i].key)
DeleteAt(store, i) == SubSeq(store, 1, i - 1) \o SubSeq(store, i + 1, Len(store))

\* A cache that evicts the key that was inserted first.
FirstInserted(store) == 1

\* [...store.entries()].sort((a, b) => a[1].fetchedAt - b[1].fetchedAt)[0]:
\* the sort is stable, so among the entries with the least fetchedAt the one
\* that is first in insertion order.
Oldest(store) ==
    CHOOSE i \in 1..Len(store) :
        /\ \A j \in 1..Len(store) : store[i].fetchedAt <= store[j].fetchedAt
        /\ \A j \in 1..(i - 1) : store[j].fetchedAt > store[i].fetchedAt

\* store.set(key, entry): a key of the Map keeps its place, a new key goes
\* to the end.
MapSet(store, entry) ==
    IF IndexOfKey(store, entry.key) = 0 THEN Append(store, entry)
    ELSE [store EXCEPT ![IndexOfKey(store, entry.key)] = entry]

\* The eviction of set: if (store.size >= maxSize) delete the oldest entry
Evicted(store) ==
    IF Len(store) >= maxSize /\ Len(store) > 0 THEN DeleteAt(store, Oldest(store)) ELSE store

\* set(key, content)
SetEntry(store, key, content, now) ==
    MapSet(Evicted(store), [key |-> key, content |-> content, fetchedAt |-> now])

\* get(key): the value returned
GetResult(store, key, now) ==
    IF IndexOfKey(store, key) = 0 THEN Null
    ELSE IF now - store[IndexOfKey(store, key)].fetchedAt > ttl THEN Null
    ELSE store[IndexOfKey(store, key)].content

\* get(key): the store it leaves, without the entry when it has expired
GetStore(store, key, now) ==
    IF IndexOfKey(store, key) # 0 /\ now - store[IndexOfKey(store, key)].fetchedAt > ttl
    THEN DeleteAt(store, IndexOfKey(store, key))
    ELSE store

NoCall ==
    [op |-> "none", key |-> "none", content |-> "none", at |-> 0, result |-> "none",
     victimAt |-> 0]

CInit == cache = [store |-> <<>>, now |-> 0, last |-> NoCall, lastSet |-> NoCall]

CacheSet(key, content) ==
    /\ cache' = [cache EXCEPT
          !.store = SetEntry(@, key, content, cache.now),
          !.last = [NoCall EXCEPT !.op = "set", !.key = key, !.content = content],
          !.lastSet = [op |-> "set", key |-> key, content |-> content, at |-> cache.now,
                       result |-> IF Len(cache.store) >= maxSize
                                  THEN cache.store[Oldest(cache.store)].key ELSE "none",
                       victimAt |-> IF Len(cache.store) >= maxSize
                                    THEN Oldest(cache.store) ELSE 0]]
    /\ CFrame

CacheGet(key) ==
    /\ cache' = [cache EXCEPT
          !.store = GetStore(@, key, cache.now),
          !.last = [NoCall EXCEPT !.op = "get", !.key = key,
                                  !.result = GetResult(cache.store, key, cache.now)]]
    /\ CFrame

\* Time passes between two calls.
ClockTick ==
    /\ cache.now < MaxClock
    /\ cache' = [cache EXCEPT !.now = @ + 1]
    /\ CFrame

CNext ==
    \/ \E key \in CacheKeys, content \in CacheContents : CacheSet(key, content)
    \/ \E key \in CacheKeys : CacheGet(key)
    \/ ClockTick

InitCache ==
    CInit /\ UIdle /\ VIdle /\ SIdle /\ RIdle /\ TIdle /\ BInit /\ PIdle /\ LIdle /\ HIdle
NextCache == CNext
SpecCache == InitCache /\ [][NextCache]_vars

\* The step is a call of get.
GetStep == cache'.last.op = "get" /\ cache'.now = cache.now /\ cache'.lastSet = cache.lastSet

\* The entries of store without the one at index i and without key.
Others(store, i, key) == {store[j] : j \in {n \in 1..Len(store) : n # i /\ store[n].key # key}}

\* C25: the cache never holds more than maxSize entries; a set on a full
\* cache removes an entry whose write time no other entry is older than, and
\* nothing else but the former entry of the key it sets; a get of the key
\* set last, made while no more than ttl has passed since, returns the
\* content that was set.
CacheBoundedEvictsOldest ==
    /\ [](Len(cache.store) <= maxSize)
    /\ [][(cache'.lastSet # cache.lastSet /\ Len(cache.store) >= maxSize) =>
            \E i \in 1..Len(cache.store) :
                /\ \A j \in 1..Len(cache.store) :
                      cache.store[i].fetchedAt <= cache.store[j].fetchedAt
                /\ Others(cache'.store, 0, cache'.lastSet.key)
                      = Others(cache.store, i, cache'.lastSet.key)]_vars
    /\ [][(GetStep /\ cache.lastSet.op = "set" /\ cache'.last.key = cache.lastSet.key
             /\ cache.now - cache.lastSet.at <= ttl) =>
            cache'.last.result = cache.lastSet.content]_vars

\* A set of a new key on a full cache evicted a key that was not the first
\* inserted, time has passed, and a get of the key just set has returned its
\* content.
CacheEvictionWitness ==
    /\ cache.lastSet.op = "set"
    /\ cache.lastSet.result \in CacheKeys
    /\ cache.lastSet.result # cache.lastSet.key
    /\ cache.lastSet.victimAt > 1
    /\ Len(cache.store) = maxSize
    /\ cache.last.op = "get" /\ cache.last.key = cache.lastSet.key
    /\ cache.last.result = cache.lastSet.content
    /\ cache.now > cache.lastSet.at

-----------------------------------------------------------------------------
(* The values that getStats, getSessions and getTimeseries return, and     *)
(* what a caller that writes to them reaches                               *)

\* The emits of a run of this component.
MaxViewEmits == 2

ViewEvents(id) ==
    {McpEvent(id, "tool_result", "web_fetch_text", 1, Undefined),
     McpEvent(id, "session_connect", Undefined, NoDuration, "s1"),
     McpEvent(id, "session_disconnect", Undefined, NoDuration, "s1")}

\* A getter that hands out the object of the bus itself.
SameObject(v) == [shared |-> TRUE, own |-> v]

\* structuredClone(v): every object of the result is new.
StructuredClone(v) == [shared |-> FALSE, own |-> v]

\* [...list]: the array is new, its elements are the objects of list.
SpreadArray(refs) == [shared |-> TRUE, own |-> refs]

\* this.sessions.values(): the objects of the map, here in the order of
\* their connectedAt; an object is known by its key and its connectedAt.
RECURSIVE SessionObjects(_, _)
SessionObjects(ss, h) ==
    IF ss = {} THEN <<>>
    ELSE LET s == CHOOSE x \in ss : \A y \in ss : h[x].connectedAt <= h[y].connectedAt
         IN  <<[sessionId |-> s, connectedAt |-> h[s].connectedAt]>>
             \o SessionObjects(ss \ {s}, h)

\* The objects of the timeseries ring, each known by the id of its event.
PointObjects(ts) == [i \in 1..Len(ts) |-> ts[i].id]

NoView == [held |-> FALSE, copy |-> [shared |-> FALSE, own |-> "none"], at |-> 0, writes |-> {}]

\* What a getter hands to its caller.
Returned(copy) == [held |-> TRUE, copy |-> copy, at |-> Len(emitted), writes |-> {}]

HInit == views = [stats |-> NoView, sessions |-> NoView, timeseries |-> NoView]

EmitViewed ==
    /\ Len(emitted) < MaxViewEmits
    /\ \E e \in ViewEvents(Len(emitted) + 1) : Emit(e, {})

\* getStats()
GetStats ==
    /\ ~views.stats.held
    /\ views' = [views EXCEPT !.stats = Returned(StructuredClone(stats))]
    /\ UNCHANGED bvars
    /\ HFrame

\* getSessions()
GetSessions ==
    /\ ~views.sessions.held
    /\ views' = [views EXCEPT !.sessions = Returned(SpreadArray(SessionObjects(sessions, heap)))]
    /\ UNCHANGED bvars
    /\ HFrame

\* getTimeseries()
GetTimeseries ==
    /\ ~views.timeseries.held
    /\ views' = [views EXCEPT !.timeseries = Returned(SpreadArray(PointObjects(timeseries)))]
    /\ UNCHANGED bvars
    /\ HFrame

\* The caller's assignment to a global counter or to a field of a per-tool
\* record of the value v.
Overwritten(v, what) ==
    IF what = "counter" THEN [v EXCEPT !.totalInvocations = 99]
    ELSE [v EXCEPT !.tools["web_fetch_text"].errorCount = 99]

\* The caller of getStats writes to the value it holds.
WriteStats(what) ==
    /\ views.stats.held /\ what \notin views.stats.writes
    /\ IF views.stats.copy.shared
       THEN /\ stats' = Overwritten(stats, what)
            /\ views' = [views EXCEPT !.stats.writes = @ \cup {what}]
       ELSE /\ stats' = stats
            /\ views' = [views EXCEPT !.stats.writes = @ \cup {what},
                                      !.stats.copy.own = Overwritten(@, what)]
    /\ UNCHANGED <<subscribers, recentEvents, timeseries, sessions, heap, streams, probes,
                   emitted, lastEmit>>
    /\ HFrame

\* The caller of getSessions sets clientName of the i-th entry: the object is
\* the one in the map unless the key was deleted or set again since.
WriteSessionEntry(i) ==
    /\ views.sessions.held /\ "entry" \notin views.sessions.writes
    /\ i \in 1..Len(views.sessions.copy.own)
    /\ LET r == views.sessions.copy.own[i]
       IN  heap' = IF /\ views.sessions.copy.shared
                      /\ r.sessionId \in sessions
                      /\ heap[r.sessionId].connectedAt = r.connectedAt
                   THEN [heap EXCEPT ![r.sessionId].clientName = "forged"]
                   ELSE heap
    /\ views' = [views EXCEPT !.sessions.writes = @ \cup {"entry"}]
    /\ UNCHANGED <<subscribers, recentEvents, timeseries, stats, sessions, streams, probes,
                   emitted, lastEmit>>
    /\ HFrame

\* The caller of getSessions empties the array it holds.
WriteSessionList ==
    /\ views.sessions.held /\ "list" \notin views.sessions.writes
    /\ views' = [views EXCEPT !.sessions.writes = @ \cup {"list"}, !.sessions.copy.own = <<>>]
    /\ UNCHANGED bvars
    /\ HFrame

\* The caller of getTimeseries sets duration of the i-th point: the object is
\* the one in the ring unless it was shifted out since.
WritePointEntry(i) ==
    /\ views.timeseries.held /\ "entry" \notin views.timeseries.writes
    /\ i \in 1..Len(views.timeseries.copy.own)
    /\ LET r == views.timeseries.copy.own[i]
       IN  timeseries' = [j \in 1..Len(timeseries) |->
                            IF views.timeseries.copy.shared /\ timeseries[j].id = r
                            THEN [timeseries[j] EXCEPT !.duration = 99]
                            ELSE timeseries[j]]
    /\ views' = [views EXCEPT !.timeseries.writes = @ \cup {"entry"}]
    /\ UNCHANGED <<subscribers, recentEvents, stats, sessions, heap, streams, probes,
                   emitted, lastEmit>>
    /\ HFrame

\* The caller of getTimeseries empties the array it holds.
WritePointList ==
    /\ views.timeseries.held /\ "list" \notin views.timeseries.writes
    /\ views' = [views EXCEPT !.timeseries.writes = @ \cup {"list"},
                              !.timeseries.copy.own = <<>>]
    /\ UNCHANGED bvars
    /\ HFrame

HNext ==
    \/ EmitViewed
    \/ GetStats
    \/ GetSessions
    \/ GetTimeseries
    \/ \E what \in {"counter", "tool"} : WriteStats(what)
    \/ \E i \in 1..MaxViewEmits : WriteSessionEntry(i)
    \/ WriteSessionList
    \/ \E i \in 1..MaxViewEmits : WritePointEntry(i)
    \/ WritePointList

InitViews ==
    HInit /\ BInit /\ UIdle /\ VIdle /\ SIdle /\ RIdle /\ TIdle /\ PIdle /\ LIdle /\ CIdle
NextViews == HNext
SpecViews == InitViews /\ [][NextViews]_vars

\* The statistics that the caller of getStats sees through the value it holds.
ViewedStats == IF views.stats.copy.shared THEN stats ELSE views.stats.copy.own

\* C21: a write of the caller to the value getStats returned, to a global
\* counter or to a per-tool record, leaves the statistics of the bus as they
\* were, and an emit leaves the returned value as it was.
StatsViewIndependent ==
    /\ [][views'.stats.writes # views.stats.writes => stats' = stats]_vars
    /\ [][(EmitStep /\ views.stats.held) => ViewedStats' = ViewedStats]_vars

\* The caller wrote to a counter and to a per-tool record of the value it
\* holds, and a result was emitted after getStats: the bus counts two calls.
StatsViewWitness ==
    /\ views.stats.held /\ views.stats.writes = {"counter", "tool"}
    /\ views.stats.at = 1 /\ Len(emitted) = 2
    /\ stats.totalInvocations = 2
    /\ stats.tools["web_fetch_text"].errorCount = 0
    /\ ViewedStats.totalInvocations = 99

\* C22: a write of the caller to the value getSessions or getTimeseries
\* returned, to the list or to a field of an entry, leaves the session map
\* and the timeseries ring of the bus as they were.
ListViewsIndependent ==
    [][(views'.sessions.writes # views.sessions.writes
         \/ views'.timeseries.writes # views.timeseries.writes) =>
          (sessions' = sessions /\ heap' = heap /\ timeseries' = timeseries)]_vars

\* What the getters do guarantee: a change of the returned array itself does
\* not reach the bus.
ListViewsOwnArray ==
    [][("list" \in views'.sessions.writes \ views.sessions.writes
         \/ "list" \in views'.timeseries.writes \ views.timeseries.writes) =>
          (sessions' = sessions /\ heap' = heap /\ timeseries' = timeseries)]_vars

\* The caller of getSessions changed the clientName that the bus holds, and
\* the caller of getTimeseries a duration of the ring.
ListViewsForgedWitness ==
    /\ \E s \in sessions : heap[s].clientName = "forged"
    /\ \E j \in 1..Len(timeseries) : timeseries[j].duration = 99

====
